---------------------------- MODULE Spec2Model ----------------------------
(***************************************************************************)
(* Head-rotation senders of scripts/RH: the polling loop, the keyboard     *)
(* listener thread and the orientation mapping (quaternion -> Euler ->     *)
(* remapped, range-protected angles).                                      *)
(*                                                                         *)
(* Numbers.  Quaternion components are integers over the denominator 25    *)
(* (<<0,15,0,20>> is (0, 0.6, 0, 0.8)); angles in radians are integers in  *)
(* milliradians; angles in degrees are integers in millidegrees.  The sign *)
(* of a floating-point zero is not represented.                            *)
(***************************************************************************)
EXTENDS Integers, Sequences, FiniteSets, TLC

(***************************************************************************)
(* Bounds of the model.                                                    *)
(***************************************************************************)
\* how many of the sample orientations the pose source can report
NumSamples == 4
\* the joystick offset of the v2 sender stays within this many ticks of full
\* deflection of one stick
MaxJoystickTicks == 1
\* how many of the sample orientations the pose source of the v2 and archived
\* senders can report
NumVSamples == 3
\* how many of the sample orientations the pose source of adb_control_gui and
\* of the v2 window can report
NumGSamples == 2
\* how many ticks the data collection worker and the v2 loop feeding the
\* window run
MaxGuiTicks == 3
\* the length of the history buffers (the scripts keep 100 samples; the
\* model keeps this many, so that a buffer fills and drops its oldest entry)
history_length == 2
\* how many ZMQ sockets adb_control_gui creates
MaxSockets == 2
\* how many requests xr_data_server handles at the same time
NumRequests == 2
\* how many XrClient objects xr_data_server creates
MaxClients == 3
\* how many frames xr_data_display draws
MaxFrames == 2

(***************************************************************************)
(* Fixed-point arithmetic.                                                 *)
(***************************************************************************)
Abs(a) == IF a < 0 THEN -a ELSE a

\* a / b rounded to the nearest integer, symmetric about 0 (b > 0)
RoundDiv(a, b) ==
    IF a >= 0 THEN (2 * a + b) \div (2 * b) ELSE -((2 * (-a) + b) \div (2 * b))

\* np.pi, in milliradians
Pi == 3142

\* 10000 * sin((k - 1/2) degrees), k = 1 .. 90
SinHalf ==
    << 87, 262, 436, 610, 785, 958, 1132, 1305, 1478, 1650,
       1822, 1994, 2164, 2334, 2504, 2672, 2840, 3007, 3173, 3338,
       3502, 3665, 3827, 3987, 4147, 4305, 4462, 4617, 4772, 4924,
       5075, 5225, 5373, 5519, 5664, 5807, 5948, 6088, 6225, 6361,
       6494, 6626, 6756, 6884, 7009, 7133, 7254, 7373, 7490, 7604,
       7716, 7826, 7934, 8039, 8141, 8241, 8339, 8434, 8526, 8616,
       8704, 8788, 8870, 8949, 9026, 9100, 9171, 9239, 9304, 9367,
       9426, 9483, 9537, 9588, 9636, 9681, 9724, 9763, 9799, 9833,
       9863, 9890, 9914, 9936, 9954, 9969, 9981, 9990, 9997, 10000 >>

\* the angle of the vector (x, y), x >= 0, y >= 0, in whole degrees (nearest)
AtanQ1(y, x) ==
    Cardinality({k \in 1..90 : y * SinHalf[91 - k] >= x * SinHalf[k]})

\* whole degrees -> milliradians
DegToRad(d) == RoundDiv(d * Pi, 180)

\* np.arctan2(y, x) in milliradians, range [-pi, pi]
arctan2(y, x) ==
    IF x = 0 /\ y = 0 THEN 0
    ELSE IF x >= 0
         THEN IF y >= 0 THEN DegToRad(AtanQ1(y, x)) ELSE -DegToRad(AtanQ1(-y, x))
         ELSE IF y >= 0 THEN DegToRad(180 - AtanQ1(y, -x))
                        ELSE -DegToRad(180 - AtanQ1(-y, -x))

\* np.clip(t, -1.0, 1.0) of t / 625
clip(t) == IF t < -625 THEN -625 ELSE IF t > 625 THEN 625 ELSE t

\* np.sqrt(1.0 - t * t) of t / 625, as a numerator over 625 (floor)
sqrt1m(t) == CHOOSE r \in 0..625 : r * r <= 390625 - t * t /\ (r + 1) * (r + 1) > 390625 - t * t

\* quaternion_to_euler with x in place of x * x in t1
quaternion_to_euler_LinearX(q) ==
    LET x == q[1]
        y == q[2]
        z == q[3]
        w == q[4]
        t0 == 2 * (w * x + y * z)
        t1 == 625 - 2 * (25 * x + y * y)
        roll_x == arctan2(t0, t1)
        t2 == clip(2 * (w * y - z * x))
        pitch_y == arctan2(t2, sqrt1m(t2))
        t3 == 2 * (w * z + x * y)
        t4 == 625 - 2 * (y * y + z * z)
        yaw_z == arctan2(t3, t4)
    IN  <<roll_x, pitch_y, yaw_z>>

(***************************************************************************)
(* test_head_rotation_sender.py: quaternion_to_euler.                      *)
(* q = <<x, y, z, w>> over 25; the result is <<roll, pitch, yaw>> in       *)
(* milliradians.  t0 .. t4 are numerators over 625.                        *)
(***************************************************************************)
quaternion_to_euler(q) ==
    LET x == q[1]
        y == q[2]
        z == q[3]
        w == q[4]
        t0 == 2 * (w * x + y * z)
        t1 == 625 - 2 * (x * x + y * y)
        roll_x == arctan2(t0, t1)
        t2 == clip(2 * (w * y - z * x))
        pitch_y == arctan2(t2, sqrt1m(t2))
        t3 == 2 * (w * z + x * y)
        t4 == 625 - 2 * (y * y + z * z)
        yaw_z == arctan2(t3, t4)
    IN  <<roll_x, pitch_y, yaw_z>>

\* np.arcsin(t) of t / 625, |t| <= 625, in milliradians, range [-pi/2, pi/2]
arcsin(t) == arctan2(t, sqrt1m(t))

(***************************************************************************)
(* test_head_rotation_sender_v2.py (and archived/test_head_rotation_       *)
(* sender.py, the same text): quaternion_to_euler.  The result is          *)
(* <<yaw, pitch, roll>> in milliradians.                                   *)
(***************************************************************************)
quaternion_to_euler_v2(q) ==
    LET x == q[1]
        y == q[2]
        z == q[3]
        w == q[4]
        look_y == 2 * (y * z - w * x)
        pitch == -arcsin(clip(look_y))
        sin_yaw == 2 * (w * y - z * x)
        cos_yaw == 625 - 2 * (y * y + x * x)
        yaw == -arctan2(sin_yaw, cos_yaw)
        sin_roll == 2 * (w * z + x * y)
        roll == -arcsin(clip(sin_roll))
    IN  <<yaw, pitch, roll>>

\* a * rad_to_deg with rad_to_deg = 180.0 / np.pi: milliradians -> millidegrees
rad_to_deg(a) == RoundDiv(a * 180000, Pi)


(***************************************************************************)
(* test_head_rotation_sender.py: map_and_clamp_euler, the pure parts.      *)
(***************************************************************************)
\* the angle limits, in millidegrees
x2_min == -90000
x2_max == 90000
y2_min == -100000
y2_max == 100000
z2_min == -35000
z2_max == 35000

\* the axis remapping of <<x1, y1, z1>> = <<roll, pitch, yaw>>, before the offset
RemapAxes(euler_rad) ==
    << -rad_to_deg(euler_rad[2]), rad_to_deg(euler_rad[1]), -rad_to_deg(euler_rad[3]) >>

\* the limit check without the test of z2
ExceedsLimits_NoZ(x2, y2, z2) ==
    \/ x2 < x2_min \/ x2 > x2_max
    \/ y2 < y2_min \/ y2 > y2_max

\* the limit check: TRUE when any angle exceeds its limits
ExceedsLimits(x2, y2, z2) ==
    \/ x2 < x2_min \/ x2 > x2_max
    \/ y2 < y2_min \/ y2 > y2_max
    \/ z2 < z2_min \/ z2 > z2_max

(***************************************************************************)
(* The wire format.  A field is the decimal text of a number: its sign,    *)
(* its integer part and the digits after the point.                        *)
(***************************************************************************)
\* f"{v:.2f}" of v millidegrees: two digits after the point, ties to even
Fmt2f(v) ==
    LET a == Abs(v)
        q == a \div 10
        r == a % 10
        c == IF r > 5 \/ (r = 5 /\ q % 2 = 1) THEN q + 1 ELSE q
    IN  [neg |-> v < 0, int |-> c \div 100, frac |-> <<(c \div 10) % 10, c % 10>>]

\* the literal text "0.0"
ZeroLiteral == [neg |-> FALSE, int |-> 0, frac |-> <<0>>]

\* f"{timestamp:.6f}": the clock value itself is not modelled
FmtTimestamp == [neg |-> FALSE, int |-> 0, frac |-> <<0, 0, 0, 0, 0, 0>>]

\* data_to_send of a tick with a sample
AngleMessage(angles) ==
    << Fmt2f(angles[1]), Fmt2f(angles[2]), Fmt2f(angles[3]), FmtTimestamp >>

\* the mapped angles of a tick without a sample
ZeroAngles == <<0, 0, 0>>

\* the number a field denotes, in millidegrees (two-digit fields) or tenths
FieldIsZero(f) == f.int = 0 /\ \A i \in 1..Len(f.frac) : f.frac[i] = 0

(***************************************************************************)
(* test_head_rotation_sender_v2.py: the joystick.  Stick values are in     *)
(* hundredths of full deflection.                                          *)
(***************************************************************************)
JOYSTICK_ROTATION_SPEED == 90
JOYSTICK_DEADZONE == 10
\* delta_time of a tick, in milliseconds (the loop sleeps 0.1 s)
DeltaTimeMs == 100
\* the sockets of TARGET_ENDPOINTS
NumEndpoints == 2

apply_deadzone(value) == IF Abs(value) < JOYSTICK_DEADZONE THEN 0 ELSE value

\* joystick_x * (JOYSTICK_ROTATION_SPEED * np.pi / 180.0) * delta_time, in milliradians
joystick_rotation_delta(joystick_x) ==
    RoundDiv(joystick_x * RoundDiv(JOYSTICK_ROTATION_SPEED * Pi, 180) * DeltaTimeMs, 100000)

(***************************************************************************)
(* The inputs.                                                             *)
(***************************************************************************)
\* get_pose_by_name returns None ...
None == <<>>

\* ... or [px, py, pz, qx, qy, qz, qw]; these are the orientations it can report:
\* the identity, pitch 74, yaw 74, roll 74, pitch -74, yaw 33, roll 106 degrees,
\* and (roll, pitch, yaw) = (38, 68, 15) degrees
SampleQuat ==
    << <<0, 0, 0, 25>>, <<0, 15, 0, 20>>, <<0, 0, 15, 20>>, <<15, 0, 0, 20>>,
       <<0, -15, 0, 20>>, <<0, 0, 7, 24>>, <<20, 0, 0, 15>>, <<5, 14, -2, 20>> >>

Poses == { <<0, 0, 0>> \o SampleQuat[i] : i \in 1..NumSamples }

\* the orientations the pose source reports to the v2 and archived senders: the
\* identity and rotations about the y axis by 106, -106 and 74 degrees (their
\* yaw is -106, 106 and -74 degrees)
VSampleQuat ==
    << <<0, 0, 0, 25>>, <<0, 20, 0, 15>>, <<0, -20, 0, 15>>, <<0, 15, 0, 20>> >>

VPoses == { <<0, 0, 0>> \o VSampleQuat[i] : i \in 1..NumVSamples }

\* get_joystick_state("left")[0] and get_joystick_state("right")[0]
LeftStick == {-100, 0, 100}
RightStick == {0, 5}

\* the keys the listener can deliver
Keys == {"r", "x"}

\* the threads that can run reset_x2: the polling loop and the keyboard listener
Threads == {"main", "kbd"}

\* the scripts: RH/test_head_rotation_sender.py, RH/test_head_rotation_sender_v2.py
\* and RH/archived/test_head_rotation_sender.py
Programs == {"RH", "V2", "ARCH"}

VARIABLES
    prog,               \* the script that is running
    pc,                 \* the polling loop's position
    head_pose,          \* the pose fetched in this tick, or None
    euler_angles,       \* quaternion_to_euler's result (v2: with the offsets applied)
    x2_deg, y2_deg, z2_deg,   \* locals of map_and_clamp_euler
    mapped_angles, data_to_send, status, button_pressed,
    last_valid_angles, x2_offset, current_x2_raw, last_trigger_state,
    rpc,                \* per thread: the position inside reset_x2, or "idle"
    rtmp,               \* per thread: the values reset_x2 has loaded
    yaw_offset, joystick_offset, reset_button_pressed, keyboard_reset_triggered,
    a_button_state,
    sent,               \* the messages pushed to the sockets in this tick
    q2e_calls,          \* calls of quaternion_to_euler in this tick
    after_reset,        \* "armed" once a reset_x2 has returned, "incall" during
                        \* the first map_and_clamp_euler call begun after it
    win,                \* "clean": the latest tick had a sample within all limits
                        \* and reset_x2 has not stored last_valid_angles since
                        \* that tick's map_and_clamp_euler call returned;
                        \* "dirty": it has stored it;
                        \* "held": the latest tick's sample exceeded a limit, the
                        \* tick before it was "clean" up to this tick's return;
                        \* "none": otherwise
    rs_cur,             \* reset_x2 took a step during the running map_and_clamp_euler call
    twice,              \* "first": a reset_x2 is running alone, and no step of
                        \* map_and_clamp_euler was taken since it began; "once":
                        \* it has returned; "second": the next reset_x2 is running
                        \* alone, still with no step of map_and_clamp_euler;
                        \* "done2": that one has returned too; "no": otherwise
    hold_ticks,         \* consecutive ticks in which the A button was pressed (at most 2)
    hold_resets,        \* resets the button triggered since it was last released
    tick_resets,        \* v2, archived: resets fired in this tick
    r_presses,          \* v2, archived: 'r' presses since the last reset (at most 2)
    r_served,           \* v2, archived: the 'r' presses the latest reset answered
    accepted,           \* RH: the angles of the latest sample line 124 stored
    quat,               \* a quaternion handed to quaternion_to_euler on its own
    fn,                 \* whose quaternion_to_euler it is handed to: "RH" or "V2"
    euler_q,            \* the result for quat
    euler_negq,         \* the result for -quat
    qpc                 \* how far the two conversions are: "off" while a sender runs

VARIABLES
    app,                \* which program runs: "sender", "adb", "window", "server", "display"
    now,                \* the clock, in units of 10 ms
    angle_history,      \* the four history buffers: time, yaw, pitch, roll
    \* adb_control_gui.py
    rotation_data, data_status, data_frequency, frame_count,
    data_lock,          \* who holds data_lock: "free", "worker" or "display"
    rotation_sockets, rotation_endpoints, rotation_endpoints_listbox,
    w_pc,               \* data_collection_worker's position
    w_head_pose,        \* its head_pose
    w_deg,              \* its yaw_deg, pitch_deg, roll_deg
    w_frame_count,      \* its local frame_count
    w_ticks,            \* the ticks it has run
    d_pc,               \* update_data_display's position
    disp,               \* what update_data_display has read
    g_sent,             \* the messages the worker's tick has pushed: <<socket, text>>
    next_sock,          \* the sockets created so far
    sock_addr,          \* per socket: the endpoint text it was connected for
    \* the window of test_head_rotation_sender_v2.py (HeadRotationGUI)
    current_data,
    u_pc,               \* the polling loop's position in and around update_data
    u_kwargs,           \* the angles the loop hands to update_data
    h_ticks,            \* the ticks the loop has run
    f_pc,               \* the window thread's position in draw_frame
    frame,              \* what the frame being drawn has read
    \* xr_data_server.py
    xr_client,          \* the module global: 0 for None, or the number of a client
    client_open,        \* the clients that are open
    clients_made,       \* the clients created so far
    req,                \* per request being handled: its position, route and locals
    \* xr_data_display.py
    x_pc,               \* main's position
    x_poses,            \* head_pose, left_pose, right_pose
    x_frame_count,
    x_shown,            \* the devices whose pose this frame has printed
    x_exit              \* "running", or the exit status of the program

winVars == << current_data, u_pc, u_kwargs, h_ticks, f_pc, frame >>
srvVars == << xr_client, client_open, clients_made, req >>
dispVars == << x_pc, x_poses, x_frame_count, x_shown, x_exit >>

guiVars == << rotation_data, data_status, data_frequency, frame_count, data_lock,
              rotation_sockets, rotation_endpoints, rotation_endpoints_listbox,
              w_pc, w_head_pose, w_deg, w_frame_count, w_ticks, d_pc, disp, g_sent,
              next_sock, sock_addr >>

\* the state of the programs other than the senders
appVars == << app, now, angle_history, guiVars, winVars, srvVars, dispVars >>

vars == << appVars, prog, pc, head_pose, euler_angles, x2_deg, y2_deg, z2_deg, mapped_angles,
           data_to_send, status, button_pressed, last_valid_angles, x2_offset,
           current_x2_raw, last_trigger_state, rpc, rtmp, yaw_offset,
           joystick_offset, reset_button_pressed, keyboard_reset_triggered,
           a_button_state, sent, q2e_calls, after_reset, win, rs_cur, twice,
           hold_ticks, hold_resets, tick_resets, r_presses, r_served, accepted, quat, fn, euler_q, euler_negq, qpc >>

\* the state of the senders
senderVars == << prog, pc, head_pose, euler_angles, x2_deg, y2_deg, z2_deg,
                 mapped_angles, data_to_send, status, button_pressed,
                 last_valid_angles, x2_offset, current_x2_raw, last_trigger_state,
                 rpc, rtmp, yaw_offset, joystick_offset, reset_button_pressed,
                 keyboard_reset_triggered, a_button_state, sent, q2e_calls,
                 after_reset, win, rs_cur, twice, hold_ticks, hold_resets,
                 tick_resets, r_presses, r_served, accepted >>

\* the state of a conversion made on its own
pureVars == << quat, fn, euler_q, euler_negq, qpc >>

\* a tick without a sample sending the last valid angles again
HeldMessage == AngleMessage(last_valid_angles)

\* data_to_send of a tick without a sample
ZeroMessage == << ZeroLiteral, ZeroLiteral, ZeroLiteral, FmtTimestamp >>

mapLocals == << x2_deg, y2_deg, z2_deg >>
tickOut == << mapped_angles, data_to_send, status >>
mapperState == << last_valid_angles, x2_offset, current_x2_raw >>
resetFrames == << rpc, rtmp >>
buttonHist == << hold_ticks, hold_resets >>
kbdHist == << tick_resets, r_presses, r_served >>
windowHist == << after_reset, win, rs_cur >>
rhOnly == << mapLocals, mapped_angles, button_pressed, mapperState,
             last_trigger_state, resetFrames, windowHist, twice >>
v2Only == << yaw_offset, joystick_offset, reset_button_pressed,
             keyboard_reset_triggered, a_button_state >>

SenderInit ==
    /\ prog \in Programs
    /\ pc = IF prog = "RH" THEN "poll" ELSE "v_poll"
    /\ head_pose = None
    /\ euler_angles = <<0, 0, 0>>
    /\ x2_deg = 0 /\ y2_deg = 0 /\ z2_deg = 0
    /\ mapped_angles = <<0, 0, 0>>
    /\ data_to_send = <<>>
    /\ status = ""
    /\ button_pressed = FALSE
    /\ last_valid_angles = <<0, 0, 0>>
    /\ x2_offset = 0
    /\ current_x2_raw = 0
    /\ last_trigger_state = FALSE
    /\ rpc = [t \in Threads |-> "idle"]
    /\ rtmp = [t \in Threads |-> <<0, 0, 0>>]
    /\ yaw_offset = 0
    /\ joystick_offset = 0
    /\ reset_button_pressed = FALSE
    /\ keyboard_reset_triggered = FALSE
    /\ a_button_state = FALSE
    /\ sent = <<>>
    /\ q2e_calls = 0
    /\ after_reset = "no"
    /\ win = "none"
    /\ rs_cur = FALSE
    /\ twice = "no"
    /\ hold_ticks = 0
    /\ hold_resets = 0
    /\ tick_resets = 0
    /\ r_presses = 0
    /\ r_served = 0
    /\ accepted = <<0, 0, 0>>

\* no conversion is made on its own while a sender runs
PureIdle ==
    /\ quat = <<0, 0, 0, 25>>
    /\ fn = "RH"
    /\ euler_q = <<0, 0, 0>>
    /\ euler_negq = <<0, 0, 0>>
    /\ qpc = "off"

\* the four empty history buffers (deque(maxlen=history_length))
EmptyHistory == [time |-> <<>>, yaw |-> <<>>, pitch |-> <<>>, roll |-> <<>>]

\* what update_data_display holds before it has read anything
NothingRead ==
    [yaw |-> 0, pitch |-> 0, roll |-> 0, status |-> "", freq |-> 0,
     times |-> <<>>, yaws |-> <<>>, pitches |-> <<>>, rolls |-> <<>>]

\* AdbControlApp.__init__: the state of adb_control_gui when its threads start
GuiStart ==
    /\ rotation_data = [yaw |-> 0, pitch |-> 0, roll |-> 0]
    /\ data_status = "INIT"
    /\ data_frequency = 0
    /\ frame_count = 0
    /\ data_lock = "free"
    /\ rotation_sockets = <<>>
    /\ rotation_endpoints = <<>>
    /\ rotation_endpoints_listbox = <<>>
    /\ w_pc = "w481"
    /\ w_head_pose = None
    /\ w_deg = <<0, 0, 0>>
    /\ w_frame_count = 0
    /\ w_ticks = 0
    /\ d_pc = "d_idle"
    /\ disp = NothingRead
    /\ g_sent = <<>>
    /\ next_sock = 0
    /\ sock_addr = <<>>

\* what a frame of the v2 window holds before it has read anything
NoFrame ==
    [yaw3d |-> 0, pitch3d |-> 0, roll3d |-> 0, yaw |-> 0, pitch |-> 0, roll |-> 0,
     times |-> <<>>, yaws |-> <<>>, pitches |-> <<>>, rolls |-> <<>>]

\* HeadRotationGUI.__init__ and the start of the v2 loop
WindowStart ==
    /\ current_data = [yaw |-> 0, pitch |-> 0, roll |-> 0, status |-> "INIT"]
    /\ u_pc = "u830"
    /\ u_kwargs = [yaw |-> 0, pitch |-> 0, roll |-> 0, status |-> "INIT"]
    /\ h_ticks = 0
    /\ f_pc = "f563"
    /\ frame = NoFrame

\* a request slot that handles no request
NoRequest == [pc |-> "idle", route |-> "", client |-> 0, pose |-> <<>>, status |-> 0,
              body |-> "", misuse |-> FALSE]

\* xr_data_server when app.run starts: the client of line 234 is open
ServerStart ==
    /\ xr_client = 1
    /\ client_open = {1}
    /\ clients_made = 1
    /\ req = [r \in 1..NumRequests |-> NoRequest]

\* xr_data_display when its loop starts
DisplayStart ==
    /\ x_pc = "x318"
    /\ x_poses = << <<>>, <<>>, <<>> >>
    /\ x_frame_count = 0
    /\ x_shown = <<>>
    /\ x_exit = "running"

\* the state of the other programs when they start
AppStart ==
    /\ now = 1
    /\ angle_history = EmptyHistory
    /\ GuiStart
    /\ WindowStart
    /\ ServerStart
    /\ DisplayStart

Init == SenderInit /\ PureIdle /\ AppStart /\ app = "sender"

(***************************************************************************)
(* The polling loop of test_head_rotation_sender.py.                       *)
(***************************************************************************)
\* the positions inside map_and_clamp_euler, once its first statement has run
InCall == {"m103", "m121", "m124", "m125"}

\* lines 147-151 and 156-160: fetch the pose; convert it, or fall back to zeros
Poll ==
    /\ pc = "poll"
    /\ \E p \in Poses \cup {None} :
          /\ head_pose' = p
          /\ IF p # None
             THEN /\ euler_angles' = quaternion_to_euler(SubSeq(p, 4, 7))
                  /\ q2e_calls' = 1
                  /\ pc' = "m102"
                  /\ UNCHANGED << tickOut, win >>
             ELSE /\ data_to_send' = ZeroMessage
                  /\ mapped_angles' = ZeroAngles
                  /\ status' = "NO HEADSET"
                  /\ q2e_calls' = 0
                  /\ pc' = "send"
                  /\ win' = "none"
                  /\ UNCHANGED euler_angles
    /\ sent' = <<>>
    /\ UNCHANGED << pureVars, appVars, kbdHist, accepted, prog, mapLocals, button_pressed, mapperState, last_trigger_state,
                    resetFrames, v2Only, after_reset, rs_cur, twice, buttonHist >>

\* lines 91-102 with the raw x2 stored in x2_offset instead of current_x2_raw
Map102_StoresOffset ==
    /\ pc = "m102"
    /\ x2_deg' = RemapAxes(euler_angles)[1]
    /\ y2_deg' = RemapAxes(euler_angles)[2]
    /\ z2_deg' = RemapAxes(euler_angles)[3]
    /\ x2_offset' = RemapAxes(euler_angles)[1]
    /\ pc' = "m103"
    /\ after_reset' = IF after_reset = "armed" THEN "incall" ELSE after_reset
    /\ twice' = "no"
    /\ UNCHANGED << pureVars, appVars, kbdHist, accepted, prog, head_pose, euler_angles, tickOut, button_pressed,
                    last_valid_angles, current_x2_raw, last_trigger_state,
                    resetFrames, v2Only, sent, q2e_calls, win, rs_cur, buttonHist >>

\* map_and_clamp_euler lines 91-102: remap the axes, store the raw x2
Map102 ==
    /\ pc = "m102"
    /\ x2_deg' = RemapAxes(euler_angles)[1]
    /\ y2_deg' = RemapAxes(euler_angles)[2]
    /\ z2_deg' = RemapAxes(euler_angles)[3]
    /\ current_x2_raw' = RemapAxes(euler_angles)[1]
    /\ pc' = "m103"
    /\ after_reset' = IF after_reset = "armed" THEN "incall" ELSE after_reset
    /\ twice' = "no"
    /\ UNCHANGED << pureVars, appVars, kbdHist, accepted, prog, head_pose, euler_angles, tickOut, button_pressed,
                    last_valid_angles, x2_offset, last_trigger_state, resetFrames,
                    v2Only, sent, q2e_calls, win, rs_cur, buttonHist >>

\* map_and_clamp_euler lines 103-119: subtract the offset, check the limits
Map103 ==
    /\ pc = "m103"
    /\ x2_deg' = x2_deg - x2_offset
    /\ pc' = IF ExceedsLimits(x2_deg - x2_offset, y2_deg, z2_deg) THEN "m121" ELSE "m124"
    /\ twice' = "no"
    /\ UNCHANGED << pureVars, appVars, kbdHist, accepted, prog, head_pose, euler_angles, y2_deg, z2_deg, tickOut,
                    button_pressed, mapperState, last_trigger_state, resetFrames,
                    v2Only, sent, q2e_calls, windowHist, buttonHist >>

\* what the end of a map_and_clamp_euler call leaves behind: the call's locals
\* are gone, lines 154-155 of the loop have run
EndOfCall ==
    /\ x2_deg' = 0 /\ y2_deg' = 0 /\ z2_deg' = 0
    /\ data_to_send' = AngleMessage(mapped_angles')
    /\ status' = "OK"
    /\ pc' = "send"
    /\ after_reset' = IF after_reset = "incall" THEN "no" ELSE after_reset
    /\ win' = IF pc = "m125" THEN "clean"
              ELSE IF win = "clean" THEN "held" ELSE "none"
    /\ rs_cur' = FALSE
    /\ twice' = "no"
    /\ UNCHANGED << pureVars, appVars, kbdHist, accepted, prog, head_pose, euler_angles, button_pressed, mapperState,
                    last_trigger_state, resetFrames, v2Only, sent, q2e_calls,
                    buttonHist >>

\* line 121 freezing only the axes that exceed their limits
Map121_PerAxis ==
    /\ pc = "m121"
    /\ mapped_angles' =
          << IF x2_deg < x2_min \/ x2_deg > x2_max THEN last_valid_angles[1] ELSE x2_deg,
             IF y2_deg < y2_min \/ y2_deg > y2_max THEN last_valid_angles[2] ELSE y2_deg,
             IF z2_deg < z2_min \/ z2_deg > z2_max THEN last_valid_angles[3] ELSE z2_deg >>
    /\ EndOfCall

\* map_and_clamp_euler line 121: a limit is exceeded, return the last valid angles
Map121 ==
    /\ pc = "m121"
    /\ mapped_angles' = last_valid_angles
    /\ EndOfCall

\* map_and_clamp_euler line 124: within the limits, store the new angles
Map124 ==
    /\ pc = "m124"
    /\ last_valid_angles' = <<x2_deg, y2_deg, z2_deg>>
    /\ accepted' = <<x2_deg, y2_deg, z2_deg>>
    /\ pc' = "m125"
    /\ twice' = "no"
    /\ UNCHANGED << pureVars, appVars, kbdHist, prog, head_pose, euler_angles, mapLocals, tickOut, button_pressed,
                    x2_offset, current_x2_raw, last_trigger_state, resetFrames,
                    v2Only, sent, q2e_calls, windowHist, buttonHist >>

\* map_and_clamp_euler line 125: return the stored angles
Map125 ==
    /\ pc = "m125"
    /\ mapped_angles' = last_valid_angles
    /\ EndOfCall

\* line 163: socket.send_string(data_to_send)
Send ==
    /\ pc = "send"
    /\ sent' = Append(sent, data_to_send)
    /\ pc' = "button"
    /\ UNCHANGED << pureVars, appVars, kbdHist, accepted, prog, head_pose, euler_angles, mapLocals, tickOut, button_pressed,
                    mapperState, last_trigger_state, resetFrames, v2Only, q2e_calls,
                    windowHist, twice, buttonHist >>

\* hold_ticks after a tick in which the A button is in state b
HoldTicksAfter(b) == IF b THEN (IF hold_ticks < 2 THEN hold_ticks + 1 ELSE 2) ELSE 0

\* line 169 testing the level of the button, not its edge
LevelTrigger(pressed, last) == pressed

\* the rising-edge test of line 169
RisingEdge(pressed, last) == pressed /\ ~last

\* the record of successive resets when thread t enters reset_x2
TwiceAfterEntry(t) ==
    IF \E u \in Threads \ {t} : rpc[u] # "idle" THEN "no"
    ELSE IF twice \in {"once", "done2"} THEN "second"
    ELSE "first"

\* what a step of reset_x2 does to the record of reset steps
ResetStepSeen ==
    /\ win' = win
    /\ rs_cur' = (rs_cur \/ pc \in InCall)

\* lines 166-172 placed before line 163: the button is sampled, and reset_x2
\* called, before the tick's message is sent
Button_BeforeSend ==
    /\ pc = "send"
    /\ \E b \in BOOLEAN :
          /\ button_pressed' = b
          /\ hold_ticks' = HoldTicksAfter(b)
          /\ IF RisingEdge(b, last_trigger_state)
             THEN /\ rpc' = [rpc EXCEPT !["main"] = "r37s"]
                  /\ rtmp' = [rtmp EXCEPT !["main"] = <<current_x2_raw, 0, 0>>]
                  /\ ResetStepSeen
                  /\ twice' = TwiceAfterEntry("main")
                  /\ pc' = "reset"
                  /\ hold_resets' = IF hold_ticks = 0 THEN 1
                                    ELSE IF hold_resets < 2 THEN hold_resets + 1 ELSE 2
                  /\ UNCHANGED last_trigger_state
             ELSE /\ last_trigger_state' = b
                  /\ pc' = "poll"
                  /\ hold_resets' = IF b /\ hold_ticks > 0 THEN hold_resets ELSE 0
                  /\ UNCHANGED << resetFrames, win, rs_cur, twice >>
    /\ UNCHANGED << pureVars, appVars, kbdHist, accepted, prog, head_pose, euler_angles, mapLocals, tickOut, mapperState,
                    v2Only, sent, q2e_calls, after_reset >>

\* lines 166-172: sample the A button; on a rising edge call reset_x2 (which
\* begins by loading current_x2_raw, line 37), else store the trigger state
Button ==
    /\ pc = "button"
    /\ \E b \in BOOLEAN :
          /\ button_pressed' = b
          /\ hold_ticks' = HoldTicksAfter(b)
          /\ IF RisingEdge(b, last_trigger_state)
             THEN /\ rpc' = [rpc EXCEPT !["main"] = "r37s"]
                  /\ rtmp' = [rtmp EXCEPT !["main"] = <<current_x2_raw, 0, 0>>]
                  /\ ResetStepSeen
                  /\ twice' = TwiceAfterEntry("main")
                  /\ pc' = "reset"
                  /\ hold_resets' = IF hold_ticks = 0 THEN 1
                                    ELSE IF hold_resets < 2 THEN hold_resets + 1 ELSE 2
                  /\ UNCHANGED last_trigger_state
             ELSE /\ last_trigger_state' = b
                  /\ pc' = "poll"
                  /\ hold_resets' = IF b /\ hold_ticks > 0 THEN hold_resets ELSE 0
                  /\ UNCHANGED << resetFrames, win, rs_cur, twice >>
    /\ UNCHANGED << pureVars, appVars, kbdHist, accepted, prog, head_pose, euler_angles, mapLocals, tickOut, mapperState,
                    v2Only, sent, q2e_calls, after_reset >>

\* line 172, after reset_x2 has returned
Trigger ==
    /\ pc = "trig"
    /\ last_trigger_state' = button_pressed
    /\ pc' = "poll"
    /\ UNCHANGED << pureVars, appVars, kbdHist, accepted, prog, head_pose, euler_angles, mapLocals, tickOut, button_pressed,
                    mapperState, resetFrames, v2Only, sent, q2e_calls, windowHist,
                    twice, buttonHist >>

(***************************************************************************)
(* reset_x2, run by thread t, one step per access of the module globals.   *)
(***************************************************************************)
\* line 37 adding the loaded value to x2_offset
ResetStore_Accumulates(t) ==
    /\ rpc[t] = "r37s"
    /\ x2_offset' = x2_offset + rtmp[t][1]
    /\ rpc' = [rpc EXCEPT ![t] = "r39a"]
    /\ ResetStepSeen
    /\ UNCHANGED << pureVars, appVars, kbdHist, accepted, prog, pc, head_pose, euler_angles, mapLocals, tickOut,
                    button_pressed, last_valid_angles, current_x2_raw,
                    last_trigger_state, rtmp, v2Only, sent, q2e_calls, after_reset,
                    twice, buttonHist >>

\* line 37, the store: x2_offset = <the loaded current_x2_raw>
ResetStore(t) ==
    /\ rpc[t] = "r37s"
    /\ x2_offset' = rtmp[t][1]
    /\ rpc' = [rpc EXCEPT ![t] = "r39a"]
    /\ ResetStepSeen
    /\ UNCHANGED << pureVars, appVars, kbdHist, accepted, prog, pc, head_pose, euler_angles, mapLocals, tickOut,
                    button_pressed, last_valid_angles, current_x2_raw,
                    last_trigger_state, rtmp, v2Only, sent, q2e_calls, after_reset,
                    twice, buttonHist >>

\* line 39, the load of last_valid_angles[1]
ResetLoad1(t) ==
    /\ rpc[t] = "r39a"
    /\ rtmp' = [rtmp EXCEPT ![t] = <<rtmp[t][1], last_valid_angles[2], 0>>]
    /\ rpc' = [rpc EXCEPT ![t] = "r39b"]
    /\ ResetStepSeen
    /\ UNCHANGED << pureVars, appVars, kbdHist, accepted, prog, pc, head_pose, euler_angles, mapLocals, tickOut,
                    button_pressed, mapperState, last_trigger_state, v2Only, sent,
                    q2e_calls, after_reset, twice, buttonHist >>

\* line 39, the load of last_valid_angles[2]
ResetLoad2(t) ==
    /\ rpc[t] = "r39b"
    /\ rtmp' = [rtmp EXCEPT ![t] = <<rtmp[t][1], rtmp[t][2], last_valid_angles[3]>>]
    /\ rpc' = [rpc EXCEPT ![t] = "r39w"]
    /\ ResetStepSeen
    /\ UNCHANGED << pureVars, appVars, kbdHist, accepted, prog, pc, head_pose, euler_angles, mapLocals, tickOut,
                    button_pressed, mapperState, last_trigger_state, v2Only, sent,
                    q2e_calls, after_reset, twice, buttonHist >>

\* the vector reset_x2 stores (line 39)
UnfrozenAngles(a1, a2) == <<0, a1, a2>>

\* line 39, the store of last_valid_angles; reset_x2 returns
ResetWrite(t) ==
    /\ rpc[t] = "r39w"
    /\ last_valid_angles' = UnfrozenAngles(rtmp[t][2], rtmp[t][3])
    /\ rpc' = [rpc EXCEPT ![t] = "idle"]
    /\ rtmp' = [rtmp EXCEPT ![t] = <<0, 0, 0>>]
    /\ win' = IF win = "clean" THEN "dirty" ELSE win
    /\ rs_cur' = (rs_cur \/ pc \in InCall)
    /\ after_reset' = "armed"
    /\ twice' = IF twice = "first" THEN "once"
                ELSE IF twice = "second" THEN "done2" ELSE "no"
    /\ pc' = IF t = "main" THEN "trig" ELSE pc
    /\ UNCHANGED << pureVars, appVars, kbdHist, accepted, prog, head_pose, euler_angles, mapLocals, tickOut, button_pressed,
                    x2_offset, current_x2_raw, last_trigger_state, v2Only, sent,
                    q2e_calls, buttonHist >>

\* on_press, lines 43-49, on the listener thread: 'r' calls reset_x2 (which
\* begins by loading current_x2_raw, line 37); any other key does nothing
KeyPress ==
    /\ prog = "RH"
    /\ rpc["kbd"] = "idle"
    /\ \E key \in Keys :
          IF key = "r"
          THEN /\ rpc' = [rpc EXCEPT !["kbd"] = "r37s"]
               /\ rtmp' = [rtmp EXCEPT !["kbd"] = <<current_x2_raw, 0, 0>>]
               /\ ResetStepSeen
               /\ twice' = TwiceAfterEntry("kbd")
          ELSE UNCHANGED << resetFrames, win, rs_cur, twice >>
    /\ UNCHANGED << pureVars, appVars, kbdHist, accepted, prog, pc, head_pose, euler_angles, mapLocals, tickOut,
                    button_pressed, mapperState, last_trigger_state, v2Only, sent,
                    q2e_calls, buttonHist, after_reset >>

(***************************************************************************)
(* The polling loops of test_head_rotation_sender_v2.py (prog = "V2") and  *)
(* archived/test_head_rotation_sender.py (prog = "ARCH"); line numbers are *)
(* those of the v2 file.                                                   *)
(***************************************************************************)
\* lines 830-849 and 871-874: fetch the pose; convert it and accumulate the
\* joystick rotation (v2 only), or fall back to zeros
VPoll ==
    /\ pc = "v_poll"
    /\ sent' = <<>>
    /\ tick_resets' = 0
    /\ UNCHANGED << r_presses, r_served >>
    /\ \E p \in VPoses \cup {None} :
          /\ head_pose' = p
          /\ IF p # None
             THEN /\ euler_angles' = quaternion_to_euler_v2(SubSeq(p, 4, 7))
                  /\ q2e_calls' = 1
                  /\ pc' = "v_cond"
                  /\ UNCHANGED status
                  /\ IF prog = "V2"
                     THEN \E l \in LeftStick, r \in RightStick :
                            LET joystick_x == apply_deadzone(l) + apply_deadzone(r)
                                new == joystick_offset + joystick_rotation_delta(joystick_x)
                            IN  /\ Abs(new) <= MaxJoystickTicks * joystick_rotation_delta(100)
                                /\ joystick_offset' = new
                     ELSE UNCHANGED joystick_offset
                  /\ UNCHANGED buttonHist
             ELSE /\ euler_angles' = ZeroAngles
                  /\ status' = "NO HEADSET"
                  /\ q2e_calls' = 0
                  /\ pc' = "v_send"
                  /\ UNCHANGED joystick_offset
                  \* the A button has a state in this tick too; the loop does
                  \* not sample it
                  /\ \E b \in BOOLEAN :
                        /\ hold_ticks' = HoldTicksAfter(b)
                        /\ hold_resets' = IF b /\ hold_ticks > 0 THEN hold_resets ELSE 0
    /\ UNCHANGED << pureVars, appVars, accepted, prog, rhOnly, data_to_send, yaw_offset, reset_button_pressed,
                    keyboard_reset_triggered, a_button_state >>

\* line 854 testing the level of the button, not a single press
ResetTriggered_Level(a_button, pressed_before, keyboard_flag) ==
    a_button \/ keyboard_flag

\* the reset condition of line 854
ResetTriggered(a_button, pressed_before, keyboard_flag) ==
    (a_button /\ ~pressed_before) \/ keyboard_flag

\* lines 852-864 with the keyboard flag left out of the condition of line 854
VCond_ButtonOnly ==
    /\ pc = "v_cond"
    /\ \E b \in BOOLEAN :
          /\ a_button_state' = b
          /\ hold_ticks' = HoldTicksAfter(b)
          /\ IF ResetTriggered(b, reset_button_pressed, FALSE)
             THEN /\ pc' = "v_reset"
                  /\ UNCHANGED reset_button_pressed
             ELSE /\ pc' = "v_apply"
                  /\ reset_button_pressed' = IF ~b THEN FALSE ELSE reset_button_pressed
          \* a reset the button triggers is one the condition grants without
          \* the keyboard flag
          /\ hold_resets' =
                LET before == IF b /\ hold_ticks > 0 THEN hold_resets ELSE 0
                IN  IF ResetTriggered(b, reset_button_pressed, FALSE)
                    THEN (IF before < 2 THEN before + 1 ELSE 2)
                    ELSE before
    /\ UNCHANGED << pureVars, appVars, accepted, prog, rhOnly, head_pose, euler_angles, data_to_send, status,
                    yaw_offset, joystick_offset, keyboard_reset_triggered, sent,
                    q2e_calls, kbdHist >>

\* lines 852-854 and 862-864: sample the A button, evaluate the reset condition
VCond ==
    /\ pc = "v_cond"
    /\ \E b \in BOOLEAN :
          /\ a_button_state' = b
          /\ hold_ticks' = HoldTicksAfter(b)
          /\ IF ResetTriggered(b, reset_button_pressed, keyboard_reset_triggered)
             THEN /\ pc' = "v_reset"
                  /\ UNCHANGED reset_button_pressed
             ELSE /\ pc' = "v_apply"
                  /\ reset_button_pressed' = IF ~b THEN FALSE ELSE reset_button_pressed
          \* a reset the button triggers is one the condition grants without
          \* the keyboard flag
          /\ hold_resets' =
                LET before == IF b /\ hold_ticks > 0 THEN hold_resets ELSE 0
                IN  IF ResetTriggered(b, reset_button_pressed, FALSE)
                    THEN (IF before < 2 THEN before + 1 ELSE 2)
                    ELSE before
    /\ UNCHANGED << pureVars, appVars, accepted, prog, rhOnly, head_pose, euler_angles, data_to_send, status,
                    yaw_offset, joystick_offset, keyboard_reset_triggered, sent,
                    q2e_calls, kbdHist >>

\* lines 856-859 without line 857: the joystick offset survives the reset
VReset_KeepsJoystick ==
    /\ pc = "v_reset"
    /\ yaw_offset' = euler_angles[1]
    /\ joystick_offset' = joystick_offset
    /\ reset_button_pressed' = TRUE
    /\ keyboard_reset_triggered' = FALSE
    /\ tick_resets' = IF tick_resets < 2 THEN tick_resets + 1 ELSE 2
    /\ r_served' = r_presses
    /\ r_presses' = 0
    /\ pc' = "v_apply"
    /\ UNCHANGED << pureVars, appVars, accepted, prog, rhOnly, head_pose, euler_angles, data_to_send, status,
                    a_button_state, sent, q2e_calls, buttonHist >>

\* lines 856-859: capture the yaw, clear the joystick offset (v2 only) and the flags
VReset ==
    /\ pc = "v_reset"
    /\ yaw_offset' = euler_angles[1]
    /\ joystick_offset' = IF prog = "V2" THEN 0 ELSE joystick_offset
    /\ reset_button_pressed' = TRUE
    /\ keyboard_reset_triggered' = FALSE
    /\ tick_resets' = IF tick_resets < 2 THEN tick_resets + 1 ELSE 2
    /\ r_served' = r_presses
    /\ r_presses' = 0
    /\ pc' = "v_apply"
    /\ UNCHANGED << pureVars, appVars, accepted, prog, rhOnly, head_pose, euler_angles, data_to_send, status,
                    a_button_state, sent, q2e_calls, buttonHist >>

\* lines 867-870: apply the offsets to the yaw
VApply ==
    /\ pc = "v_apply"
    /\ euler_angles' = [euler_angles EXCEPT ![1] =
                           IF prog = "V2" THEN @ - yaw_offset + joystick_offset
                                          ELSE @ - yaw_offset]
    /\ status' = "OK"
    /\ pc' = "v_send"
    /\ UNCHANGED << pureVars, appVars, accepted, prog, rhOnly, head_pose, data_to_send, v2Only, sent, q2e_calls,
                    buttonHist, kbdHist >>

\* the text send_euler_data builds (lines 290-299)
EulerMessage(euler_rad) ==
    AngleMessage(<< rad_to_deg(euler_rad[1]), rad_to_deg(euler_rad[2]),
                    rad_to_deg(euler_rad[3]) >>)

\* lines 877-878 and send_euler_data: one message to each socket
VSend ==
    /\ pc = "v_send"
    /\ data_to_send' = EulerMessage(euler_angles)
    /\ sent' = [i \in 1..NumEndpoints |-> EulerMessage(euler_angles)]
    /\ pc' = "v_poll"
    /\ UNCHANGED << pureVars, appVars, accepted, prog, rhOnly, head_pose, euler_angles, status, v2Only, q2e_calls,
                    buttonHist, kbdHist >>

\* on_press, lines 44-51, on the listener thread
VKeyPress ==
    /\ prog \in {"V2", "ARCH"}
    /\ \E key \in Keys :
          /\ keyboard_reset_triggered' = IF key = "r" THEN TRUE ELSE keyboard_reset_triggered
          /\ r_presses' = IF key = "r" /\ r_presses < 2 THEN r_presses + 1 ELSE r_presses
    /\ UNCHANGED << tick_resets, r_served >>
    /\ UNCHANGED << pureVars, appVars, accepted, prog, pc, rhOnly, head_pose, euler_angles, data_to_send, status,
                    yaw_offset, joystick_offset, reset_button_pressed, a_button_state,
                    sent, q2e_calls, buttonHist >>

Next ==
    \/ Poll
    \/ Map102
    \/ Map103
    \/ Map121
    \/ Map124
    \/ Map125
    \/ Send
    \/ Button
    \/ Trigger
    \/ KeyPress
    \/ \E t \in Threads : ResetStore(t)
    \/ \E t \in Threads : ResetLoad1(t)
    \/ \E t \in Threads : ResetLoad2(t)
    \/ \E t \in Threads : ResetWrite(t)
    \/ VPoll
    \/ VCond
    \/ VReset
    \/ VApply
    \/ VSend
    \/ VKeyPress

Spec == Init /\ [][Next]_vars

(***************************************************************************)
(* quaternion_to_euler on its own: the quaternion is drawn from the unit   *)
(* quaternions with components in QComp (over 25), converted, negated and  *)
(* converted again.                                                        *)
(***************************************************************************)
QComp == {-25, -24, -20, -15, -10, -7, -5, 0, 5, 7, 10, 15, 20, 24, 25}

UnitQuaternions ==
    { v \in QComp \X QComp \X QComp \X QComp :
        v[1] * v[1] + v[2] * v[2] + v[3] * v[3] + v[4] * v[4] = 625 }

\* -q
Negated(v) == << -v[1], -v[2], -v[3], -v[4] >>

\* quaternion_to_euler of the script f
Convert(f, v) == IF f = "RH" THEN quaternion_to_euler(v) ELSE quaternion_to_euler_v2(v)

QInit ==
    /\ SenderInit
    /\ prog = "RH"
    /\ AppStart
    /\ app = "sender"
    /\ quat \in UnitQuaternions
    /\ fn \in {"RH", "V2"}
    /\ euler_q = <<0, 0, 0>>
    /\ euler_negq = <<0, 0, 0>>
    /\ qpc = "start"

\* quaternion_to_euler(q)
QConvert ==
    /\ qpc = "start"
    /\ euler_q' = Convert(fn, quat)
    /\ qpc' = "negate"
    /\ UNCHANGED << senderVars, appVars, quat, fn, euler_negq >>

\* quaternion_to_euler(-q)
QConvertNegated ==
    /\ qpc = "negate"
    /\ euler_negq' = Convert(fn, Negated(quat))
    /\ qpc' = "done"
    /\ UNCHANGED << senderVars, appVars, quat, fn, euler_q >>

QNext == QConvert \/ QConvertNegated

QSpec == QInit /\ [][QNext]_vars

(***************************************************************************)
(* adb_control_gui.py: data_collection_worker on its own thread,           *)
(* update_data_display and the endpoint buttons on the Tk thread.          *)
(***************************************************************************)
\* the orientations the pose source reports to adb_control_gui and to the v2
\* window: the identity and two with yaw, pitch and roll all different
GSampleQuat == << <<0, 0, 0, 25>>, <<5, 14, -2, 20>>, <<14, 5, 2, 20>> >>

GPoses == { <<0, 0, 0>> \o GSampleQuat[i] : i \in 1..NumGSamples }

\* lines 484-492: yaw_deg, pitch_deg, roll_deg of a pose
EulerDegrees(p) ==
    LET e == quaternion_to_euler_v2(SubSeq(p, 4, 7))
    IN  << rad_to_deg(e[1]), rad_to_deg(e[2]), rad_to_deg(e[3]) >>

\* deque(maxlen=history_length).append
DequeAppend(d, x) == IF Len(d) >= history_length THEN Tail(d) \o <<x>> ELSE Append(d, x)

\* frame_count / elapsed, in tenths of a hertz (elapsed in units of 10 ms)
Frequency(n, elapsed) == RoundDiv(n * 1000, elapsed)

\* start_time of data_collection_worker (line 477) and of the v2 loop
start_time == 0

\* what the programs other than adb_control_gui own
outsideGui == << senderVars, pureVars, app, winVars, srvVars, dispVars >>

\* the worker's state outside the lock
workerLocals == << w_head_pose, w_deg, w_frame_count, w_ticks >>
endpointLists == << rotation_sockets, rotation_endpoints, rotation_endpoints_listbox,
                    next_sock, sock_addr >>
sharedData == << rotation_data, data_status, data_frequency, frame_count, angle_history >>

\* line 481: fetch the headset pose; lines 484-492: convert it
Worker481 ==
    /\ app = "adb"
    /\ w_pc = "w481"
    /\ w_ticks < MaxGuiTicks
    /\ w_ticks' = w_ticks + 1
    /\ g_sent' = <<>>
    /\ \E p \in GPoses \cup {None} :
          /\ w_head_pose' = p
          /\ IF p # None
             THEN /\ w_deg' = EulerDegrees(p)
                  /\ w_pc' = "w499"
             ELSE /\ w_pc' = "w523"
                  /\ UNCHANGED w_deg
    /\ UNCHANGED << outsideGui, now, sharedData, data_lock, endpointLists,
                    w_frame_count, d_pc, disp >>

\* line 499 and send_rotation_data (lines 454-473): one message to every
\* socket of rotation_sockets; a socket whose buffer is full is skipped
Worker499 ==
    /\ app = "adb"
    /\ w_pc = "w499"
    /\ \E full \in SUBSET { rotation_sockets[i] : i \in 1..Len(rotation_sockets) } :
          LET Delivered(e) == e[1] \notin full
          IN  g_sent' = SelectSeq([i \in 1..Len(rotation_sockets) |->
                                      << rotation_sockets[i], AngleMessage(w_deg) >>],
                                  Delivered)
    /\ w_pc' = "w502"
    /\ UNCHANGED << outsideGui, now, sharedData, data_lock, endpointLists, workerLocals,
                    d_pc, disp >>

\* line 502: with self.data_lock (the worker waits while the lock is held)
Worker502 ==
    /\ app = "adb"
    /\ w_pc = "w502"
    /\ data_lock = "free"
    /\ data_lock' = "worker"
    /\ w_pc' = "w503"
    /\ UNCHANGED << outsideGui, now, sharedData, endpointLists, workerLocals, d_pc, disp,
                    g_sent >>

\* line 503
Worker503 ==
    /\ app = "adb"
    /\ w_pc = "w503"
    /\ rotation_data' = [rotation_data EXCEPT !.yaw = w_deg[1]]
    /\ w_pc' = "w504"
    /\ UNCHANGED << outsideGui, now, data_status, data_frequency, frame_count,
                    angle_history, data_lock, endpointLists, workerLocals, d_pc, disp,
                    g_sent >>

\* line 504
Worker504 ==
    /\ app = "adb"
    /\ w_pc = "w504"
    /\ rotation_data' = [rotation_data EXCEPT !.pitch = w_deg[2]]
    /\ w_pc' = "w505"
    /\ UNCHANGED << outsideGui, now, data_status, data_frequency, frame_count,
                    angle_history, data_lock, endpointLists, workerLocals, d_pc, disp,
                    g_sent >>

\* lines 505-506
Worker505 ==
    /\ app = "adb"
    /\ w_pc = "w505"
    /\ rotation_data' = [rotation_data EXCEPT !.roll = w_deg[3]]
    /\ data_status' = "OK"
    /\ w_pc' = "w510"
    /\ UNCHANGED << outsideGui, now, data_frequency, frame_count, angle_history,
                    data_lock, endpointLists, workerLocals, d_pc, disp, g_sent >>

\* lines 509-511: the history takes a sample when it is empty or its latest
\* one is more than 0.05 s old
Worker510 ==
    /\ app = "adb"
    /\ w_pc = "w510"
    /\ IF \/ Len(angle_history.time) = 0
          \/ now - angle_history.time[Len(angle_history.time)] > 5
       THEN /\ angle_history' = [angle_history EXCEPT !.time = DequeAppend(@, now)]
            /\ w_pc' = "w512"
       ELSE /\ w_pc' = "w517"
            /\ UNCHANGED angle_history
    /\ UNCHANGED << outsideGui, now, rotation_data, data_status, data_frequency,
                    frame_count, data_lock, endpointLists, workerLocals, d_pc, disp,
                    g_sent >>

\* line 512
Worker512 ==
    /\ app = "adb"
    /\ w_pc = "w512"
    /\ angle_history' = [angle_history EXCEPT !.yaw = DequeAppend(@, w_deg[1])]
    /\ w_pc' = "w513"
    /\ UNCHANGED << outsideGui, now, rotation_data, data_status, data_frequency,
                    frame_count, data_lock, endpointLists, workerLocals, d_pc, disp,
                    g_sent >>

\* line 513
Worker513 ==
    /\ app = "adb"
    /\ w_pc = "w513"
    /\ angle_history' = [angle_history EXCEPT !.pitch = DequeAppend(@, w_deg[2])]
    /\ w_pc' = "w514"
    /\ UNCHANGED << outsideGui, now, rotation_data, data_status, data_frequency,
                    frame_count, data_lock, endpointLists, workerLocals, d_pc, disp,
                    g_sent >>

\* line 514
Worker514 ==
    /\ app = "adb"
    /\ w_pc = "w514"
    /\ angle_history' = [angle_history EXCEPT !.roll = DequeAppend(@, w_deg[3])]
    /\ w_pc' = "w517"
    /\ UNCHANGED << outsideGui, now, rotation_data, data_status, data_frequency,
                    frame_count, data_lock, endpointLists, workerLocals, d_pc, disp,
                    g_sent >>

\* lines 517-521, and the end of the with block: the lock is released
Worker517 ==
    /\ app = "adb"
    /\ w_pc = "w517"
    /\ w_frame_count' = w_frame_count + 1
    /\ IF now - start_time > 0
       THEN /\ data_frequency' = Frequency(w_frame_count + 1, now - start_time)
            /\ frame_count' = w_frame_count + 1
       ELSE UNCHANGED << data_frequency, frame_count >>
    /\ data_lock' = "free"
    /\ w_pc' = "w527"
    /\ UNCHANGED << outsideGui, now, rotation_data, data_status, angle_history,
                    endpointLists, w_head_pose, w_deg, w_ticks, d_pc, disp, g_sent >>

\* line 523: with self.data_lock, on a tick without a pose
Worker523 ==
    /\ app = "adb"
    /\ w_pc = "w523"
    /\ data_lock = "free"
    /\ data_lock' = "worker"
    /\ w_pc' = "w524"
    /\ UNCHANGED << outsideGui, now, sharedData, endpointLists, workerLocals, d_pc, disp,
                    g_sent >>

\* line 524 zeroing the angles as well, as the senders do without a pose
Worker524_Zeros ==
    /\ app = "adb"
    /\ w_pc = "w524"
    /\ data_status' = "NO HEADSET"
    /\ data_lock' = "free"
    /\ w_pc' = "w527"
    /\ rotation_data' = [yaw |-> 0, pitch |-> 0, roll |-> 0]
    /\ UNCHANGED << outsideGui, now, data_frequency, frame_count,
                    angle_history, endpointLists, workerLocals, d_pc, disp, g_sent >>

\* line 524, and the end of the with block
Worker524 ==
    /\ app = "adb"
    /\ w_pc = "w524"
    /\ data_status' = "NO HEADSET"
    /\ data_lock' = "free"
    /\ w_pc' = "w527"
    /\ UNCHANGED << outsideGui, now, rotation_data, data_frequency, frame_count,
                    angle_history, endpointLists, workerLocals, d_pc, disp, g_sent >>

\* line 527: time.sleep(0.1)
Worker527 ==
    /\ app = "adb"
    /\ w_pc = "w527"
    /\ now' = now + 10
    /\ w_pc' = "w481"
    /\ UNCHANGED << outsideGui, sharedData, data_lock, endpointLists, workerLocals,
                    d_pc, disp, g_sent >>

\* update_data_display reading without taking data_lock
Display538_NoLock ==
    /\ app = "adb"
    /\ d_pc = "d_idle"
    /\ data_lock' = data_lock
    /\ d_pc' = "d539"
    /\ UNCHANGED << outsideGui, now, sharedData, endpointLists, workerLocals, w_pc, disp,
                    g_sent >>

\* update_data_display, line 538: with self.data_lock
Display538 ==
    /\ app = "adb"
    /\ d_pc = "d_idle"
    /\ data_lock = "free"
    /\ data_lock' = "display"
    /\ d_pc' = "d539"
    /\ UNCHANGED << outsideGui, now, sharedData, endpointLists, workerLocals, w_pc, disp,
                    g_sent >>

\* the field of disp that the statement at position p of update_data_display
\* assigns, from the shared data (lines 539-549)
DisplayRead(p) ==
    CASE p = "d539" -> [disp EXCEPT !.yaw = rotation_data.yaw]
      [] p = "d540" -> [disp EXCEPT !.pitch = rotation_data.pitch]
      [] p = "d541" -> [disp EXCEPT !.roll = rotation_data.roll]
      [] p = "d542" -> [disp EXCEPT !.status = data_status]
      [] p = "d543" -> [disp EXCEPT !.freq = data_frequency]
      [] p = "d546" -> [disp EXCEPT !.times = angle_history.time]
      [] p = "d547" -> [disp EXCEPT !.yaws = angle_history.yaw]
      [] p = "d548" -> [disp EXCEPT !.pitches = angle_history.pitch]
      [] p = "d549" -> [disp EXCEPT !.rolls = angle_history.roll]

\* the statement after the one at position p
DisplayAfter(p) ==
    CASE p = "d539" -> "d540"
      [] p = "d540" -> "d541"
      [] p = "d541" -> "d542"
      [] p = "d542" -> "d543"
      [] p = "d543" -> "d546"
      [] p = "d546" -> "d547"
      [] p = "d547" -> "d548"
      [] p = "d548" -> "d549"
      [] p = "d549" -> "d552"

DisplayReads == {"d539", "d540", "d541", "d542", "d543", "d546", "d547", "d548", "d549"}

\* lines 539-549, one statement at a time; the with block ends after line 549
DisplayStep ==
    /\ app = "adb"
    /\ d_pc \in DisplayReads
    /\ disp' = DisplayRead(d_pc)
    /\ d_pc' = DisplayAfter(d_pc)
    /\ data_lock' = IF d_pc = "d549" THEN "free" ELSE data_lock
    /\ UNCHANGED << outsideGui, now, sharedData, endpointLists, workerLocals, w_pc,
                    g_sent >>

\* lines 552-581: the labels, the gauges and the graph are drawn from what
\* was read; the function returns
Display552 ==
    /\ app = "adb"
    /\ d_pc = "d552"
    /\ disp' = NothingRead
    /\ d_pc' = "d_idle"
    /\ UNCHANGED << outsideGui, now, sharedData, data_lock, endpointLists, workerLocals,
                    w_pc, g_sent >>

\* what can stand in the endpoint entry: the text split at its colons, and
\* whether blanks surround it
EndpointTexts ==
    { [fields |-> <<"192.168.1.56", "5555">>, blanks |-> FALSE],
      [fields |-> <<"192.168.1.56", "5555">>, blanks |-> TRUE],
      [fields |-> <<"127.0.0.1", "8080">>, blanks |-> FALSE],
      [fields |-> <<"192.168.1.56">>, blanks |-> FALSE],
      [fields |-> <<"192.168.1.56", "http">>, blanks |-> FALSE],
      [fields |-> <<"192.168.1.56", "5555", "1">>, blanks |-> FALSE],
      [fields |-> <<>>, blanks |-> TRUE] }

\* str.strip()
Strip(text) == [text EXCEPT !.blanks = FALSE]

\* the texts int() accepts
Numerals == {"5555", "8080"}

\* the elements of a list
Elements(list) == { list[i] : i \in 1..Len(list) }

\* del list[index]
DeleteAt(list, index) == SubSeq(list, 1, index - 1) \o SubSeq(list, index + 1, Len(list))

\* connect_rotation_endpoint (lines 337-372) with the test of lines 354-356 left out
connect_rotation_endpoint_NoDuplicateCheck ==
    /\ app = "adb"
    /\ d_pc = "d_idle"
    /\ \E text \in EndpointTexts :
          LET endpoint == Strip(text)
          IN  IF \/ endpoint.fields = <<>>
                 \/ Len(endpoint.fields) = 1
                 \/ Len(endpoint.fields) # 2
                 \/ endpoint.fields[2] \notin Numerals
              THEN UNCHANGED endpointLists
              ELSE /\ next_sock < MaxSockets
                   /\ next_sock' = next_sock + 1
                   /\ sock_addr' = Append(sock_addr, endpoint)
                   /\ \E connected \in BOOLEAN :
                         IF connected
                         THEN /\ rotation_sockets' = Append(rotation_sockets, next_sock + 1)
                              /\ rotation_endpoints' = Append(rotation_endpoints, endpoint)
                              /\ rotation_endpoints_listbox' =
                                    Append(rotation_endpoints_listbox, endpoint)
                         ELSE UNCHANGED << rotation_sockets, rotation_endpoints,
                                           rotation_endpoints_listbox >>
    /\ UNCHANGED << outsideGui, now, sharedData, data_lock, workerLocals, w_pc, d_pc,
                    disp, g_sent >>

\* connect_rotation_endpoint (lines 337-372), a button callback on the Tk
\* thread: an empty text (339-342), a text without a colon (346-348), one that
\* does not split in two or whose port is no number (350-351, caught at 369)
\* and a text already connected (354-356) change nothing; otherwise a socket
\* is created, and appended with its endpoint unless sock.connect raises
connect_rotation_endpoint ==
    /\ app = "adb"
    /\ d_pc = "d_idle"
    /\ \E text \in EndpointTexts :
          LET endpoint == Strip(text)
          IN  IF \/ endpoint.fields = <<>>
                 \/ Len(endpoint.fields) = 1
                 \/ Len(endpoint.fields) # 2
                 \/ endpoint.fields[2] \notin Numerals
                 \/ endpoint \in Elements(rotation_endpoints)
              THEN UNCHANGED endpointLists
              ELSE /\ next_sock < MaxSockets
                   /\ next_sock' = next_sock + 1
                   /\ sock_addr' = Append(sock_addr, endpoint)
                   /\ \E connected \in BOOLEAN :
                         IF connected
                         THEN /\ rotation_sockets' = Append(rotation_sockets, next_sock + 1)
                              /\ rotation_endpoints' = Append(rotation_endpoints, endpoint)
                              /\ rotation_endpoints_listbox' =
                                    Append(rotation_endpoints_listbox, endpoint)
                         ELSE UNCHANGED << rotation_sockets, rotation_endpoints,
                                           rotation_endpoints_listbox >>
    /\ UNCHANGED << outsideGui, now, sharedData, data_lock, workerLocals, w_pc, d_pc,
                    disp, g_sent >>

\* disconnect_rotation_endpoint (lines 374-399), a button callback on the Tk
\* thread: without a selection nothing changes (376-379); otherwise the
\* socket at the selected index is closed and both lists and the listbox
\* lose that index, unless sock.close raises (397-399)
disconnect_rotation_endpoint ==
    /\ app = "adb"
    /\ d_pc = "d_idle"
    /\ \E index \in 0..Len(rotation_endpoints_listbox) :
          IF index = 0 \/ index > Len(rotation_endpoints) \/ index > Len(rotation_sockets)
          THEN UNCHANGED endpointLists
          ELSE \E closed \in BOOLEAN :
                  IF closed
                  THEN /\ rotation_sockets' = DeleteAt(rotation_sockets, index)
                       /\ rotation_endpoints' = DeleteAt(rotation_endpoints, index)
                       /\ rotation_endpoints_listbox' =
                             DeleteAt(rotation_endpoints_listbox, index)
                       /\ UNCHANGED << next_sock, sock_addr >>
                  ELSE UNCHANGED endpointLists
    /\ UNCHANGED << outsideGui, now, sharedData, data_lock, workerLocals, w_pc, d_pc,
                    disp, g_sent >>

GInit == SenderInit /\ prog = "RH" /\ PureIdle /\ AppStart /\ app = "adb"

GNext ==
    \/ Worker481
    \/ Worker499
    \/ Worker502
    \/ Worker503
    \/ Worker504
    \/ Worker505
    \/ Worker510
    \/ Worker512
    \/ Worker513
    \/ Worker514
    \/ Worker517
    \/ Worker523
    \/ Worker524
    \/ Worker527
    \/ Display538
    \/ DisplayStep
    \/ Display552
    \/ connect_rotation_endpoint
    \/ disconnect_rotation_endpoint

GSpec == GInit /\ [][GNext]_vars

(***************************************************************************)
(* The window of test_head_rotation_sender_v2.py: the polling loop calls   *)
(* HeadRotationGUI.update_data, the window thread (gui_worker) draws       *)
(* frames.                                                                 *)
(***************************************************************************)
\* what the programs other than the v2 window own
outsideWindow == << senderVars, pureVars, app, guiVars, srvVars, dispVars >>

\* lines 830-888: a tick of the loop up to the angles in degrees; without a
\* pose they are zeros (lines 871-874)
Loop830 ==
    /\ app = "window"
    /\ u_pc = "u830"
    /\ h_ticks < MaxGuiTicks
    /\ h_ticks' = h_ticks + 1
    /\ \E p \in GPoses \cup {None} :
          LET deg == IF p = None THEN <<0, 0, 0>> ELSE EulerDegrees(p)
          IN  u_kwargs' = [yaw |-> deg[1], pitch |-> deg[2], roll |-> deg[3],
                           status |-> IF p = None THEN "NO HEADSET" ELSE "OK"]
    /\ u_pc' = "u360"
    /\ UNCHANGED << outsideWindow, now, angle_history, current_data, f_pc, frame >>

\* update_data, line 360: self.current_data.update(kwargs), one dict.update
Update360 ==
    /\ app = "window"
    /\ u_pc = "u360"
    /\ current_data' = u_kwargs
    /\ u_pc' = "u363"
    /\ UNCHANGED << outsideWindow, now, angle_history, u_kwargs, h_ticks, f_pc, frame >>

\* update_data, lines 363-365
Update363 ==
    /\ app = "window"
    /\ u_pc = "u363"
    /\ IF \/ Len(angle_history.time) = 0
          \/ now - angle_history.time[Len(angle_history.time)] > 5
       THEN /\ angle_history' = [angle_history EXCEPT !.time = DequeAppend(@, now)]
            /\ u_pc' = "u366"
       ELSE /\ u_pc' = "u910"
            /\ UNCHANGED angle_history
    /\ UNCHANGED << outsideWindow, now, current_data, u_kwargs, h_ticks, f_pc, frame >>

\* update_data, line 366
Update366 ==
    /\ app = "window"
    /\ u_pc = "u366"
    /\ angle_history' = [angle_history EXCEPT !.yaw = DequeAppend(@, current_data.yaw)]
    /\ u_pc' = "u367"
    /\ UNCHANGED << outsideWindow, now, current_data, u_kwargs, h_ticks, f_pc, frame >>

\* update_data, line 367
Update367 ==
    /\ app = "window"
    /\ u_pc = "u367"
    /\ angle_history' = [angle_history EXCEPT !.pitch = DequeAppend(@, current_data.pitch)]
    /\ u_pc' = "u368"
    /\ UNCHANGED << outsideWindow, now, current_data, u_kwargs, h_ticks, f_pc, frame >>

\* update_data, line 368
Update368 ==
    /\ app = "window"
    /\ u_pc = "u368"
    /\ angle_history' = [angle_history EXCEPT !.roll = DequeAppend(@, current_data.roll)]
    /\ u_pc' = "u910"
    /\ UNCHANGED << outsideWindow, now, current_data, u_kwargs, h_ticks, f_pc, frame >>

\* line 910: time.sleep(0.1)
Loop910 ==
    /\ app = "window"
    /\ u_pc = "u910"
    /\ now' = now + 10
    /\ u_pc' = "u830"
    /\ UNCHANGED << outsideWindow, angle_history, current_data, u_kwargs, h_ticks, f_pc,
                    frame >>

\* the field of frame that the statement at position p of draw_frame assigns:
\* draw_3d_orientation (lines 563-565), draw_angle_gauges (lines 634-636),
\* draw_angle_history (lines 713-716)
FrameRead(p) ==
    CASE p = "f563" -> [frame EXCEPT !.yaw3d = current_data.yaw]
      [] p = "f564" -> [frame EXCEPT !.pitch3d = current_data.pitch]
      [] p = "f565" -> [frame EXCEPT !.roll3d = current_data.roll]
      [] p = "f634" -> [frame EXCEPT !.yaw = current_data.yaw]
      [] p = "f635" -> [frame EXCEPT !.pitch = current_data.pitch]
      [] p = "f636" -> [frame EXCEPT !.roll = current_data.roll]
      [] p = "f712" -> frame
      [] p = "f713" -> [frame EXCEPT !.times = angle_history.time]
      [] p = "f714" -> [frame EXCEPT !.yaws = angle_history.yaw]
      [] p = "f715" -> [frame EXCEPT !.pitches = angle_history.pitch]
      [] p = "f716" -> [frame EXCEPT !.rolls = angle_history.roll]

\* the statement after the one at position p; line 712 skips the plot when
\* the history has fewer than two samples
FrameAfter(p) ==
    CASE p = "f563" -> "f564"
      [] p = "f564" -> "f565"
      [] p = "f565" -> "f634"
      [] p = "f634" -> "f635"
      [] p = "f635" -> "f636"
      [] p = "f636" -> "f712"
      [] p = "f712" -> IF Len(angle_history.time) > 1 THEN "f713" ELSE "f_shown"
      [] p = "f713" -> "f714"
      [] p = "f714" -> "f715"
      [] p = "f715" -> "f716"
      [] p = "f716" -> "f_shown"

FrameReads == {"f563", "f564", "f565", "f634", "f635", "f636", "f712", "f713", "f714",
               "f715", "f716"}

\* draw_frame (lines 396-410), one read of the shared data at a time
FrameStep ==
    /\ app = "window"
    /\ f_pc \in FrameReads
    /\ frame' = FrameRead(f_pc)
    /\ f_pc' = FrameAfter(f_pc)
    /\ UNCHANGED << outsideWindow, now, angle_history, current_data, u_pc, u_kwargs,
                    h_ticks >>

\* run, lines 753-757: the frame is shown, the next one begins
FrameShown ==
    /\ app = "window"
    /\ f_pc = "f_shown"
    /\ frame' = NoFrame
    /\ f_pc' = "f563"
    /\ UNCHANGED << outsideWindow, now, angle_history, current_data, u_pc, u_kwargs,
                    h_ticks >>

WInit == SenderInit /\ prog = "RH" /\ PureIdle /\ AppStart /\ app = "window"

WNext ==
    \/ Loop830
    \/ Update360
    \/ Update363
    \/ Update366
    \/ Update367
    \/ Update368
    \/ Loop910
    \/ FrameStep
    \/ FrameShown

WSpec == WInit /\ [][WNext]_vars

(***************************************************************************)
(* xr_data_server.py: a Flask application; app.run serves each request on  *)
(* its own thread.  Every request runs initialize_xr_client                *)
(* (before_request), its route's handler and close_xr_client               *)
(* (teardown_appcontext).  XrClient() is taken to succeed: the service is  *)
(* running when the server starts (lines 232-239).                         *)
(***************************************************************************)
\* what the programs other than xr_data_server own
outsideServer == << senderVars, pureVars, app, now, angle_history, guiVars, winVars,
                    dispVars >>

\* the routes of lines 132-202, and /data (line 120)
DeviceRoutes == {"/head", "/headPosition", "/headRotation",
                 "/left", "/leftPosition", "/leftRotation",
                 "/right", "/rightPosition", "/rightRotation"}
Routes == DeviceRoutes \cup {"/data"}

\* a pose the pose source reports for a device
SomePose == <<0, 0, 0, 0, 0, 0, 25>>

\* a request arrives at a free thread
Arrive(r) ==
    /\ app = "server"
    /\ req[r].pc = "idle"
    /\ \E route \in Routes :
          req' = [req EXCEPT ![r] = [NoRequest EXCEPT !.pc = "b209", !.route = route]]
    /\ UNCHANGED << outsideServer, xr_client, client_open, clients_made >>

\* initialize_xr_client, line 209: if xr_client is None
Before209(r) ==
    /\ app = "server"
    /\ req[r].pc = "b209"
    /\ req' = [req EXCEPT ![r].pc = IF xr_client = 0 THEN "b212" ELSE "handler"]
    /\ UNCHANGED << outsideServer, xr_client, client_open, clients_made >>

\* initialize_xr_client, line 212: xr_client = XrClient()
Before212(r) ==
    /\ app = "server"
    /\ req[r].pc = "b212"
    /\ clients_made < MaxClients
    /\ clients_made' = clients_made + 1
    /\ xr_client' = clients_made + 1
    /\ client_open' = client_open \cup {clients_made + 1}
    /\ req' = [req EXCEPT ![r].pc = "handler"]
    /\ UNCHANGED outsideServer

\* the response of a handler whose call on the client raised: the routes of
\* lines 132-202 let the exception reach Flask, /data catches it (lines 128-130)
Failed(q) == [q EXCEPT !.status = 500, !.body = "error", !.pc = "teardown"]

\* the response of a per-device handler for the pose it got (e.g. lines 135-140)
Answered(q, p) ==
    [q EXCEPT !.status = IF p = None THEN 404 ELSE 200,
              !.body = IF p = None THEN "null" ELSE "pose",
              !.pc = "teardown"]

\* a handler evaluates the global xr_client for its first call (line 134 and
\* its like; line 49 in get_xr_data): None has no get_pose_by_name
HandlerLoad(r) ==
    /\ app = "server"
    /\ req[r].pc = "handler"
    /\ IF xr_client = 0
       THEN \E p \in {None, SomePose} :
               req' = [req EXCEPT ![r] = Failed([@ EXCEPT !.misuse = TRUE, !.pose = p])]
       ELSE req' = [req EXCEPT ![r].client = xr_client, ![r].pc = "call"]
    /\ UNCHANGED << outsideServer, xr_client, client_open, clients_made >>

\* the call itself: get_pose_by_name on the client that was loaded (/data:
\* lines 49-60, the timestamp and the headset pose).  What a closed XrClient
\* does is not defined by this repository: it raises or it answers.
HandlerCall(r) ==
    /\ app = "server"
    /\ req[r].pc = "call"
    /\ \E p \in {None, SomePose}, raises \in BOOLEAN :
          LET q == [req[r] EXCEPT !.pose = p,
                                  !.misuse = (req[r].client \notin client_open)]
          IN  /\ raises => req[r].client \notin client_open
              /\ req' = [req EXCEPT ![r] =
                           IF raises THEN Failed(q)
                           ELSE IF q.route = "/data" THEN [q EXCEPT !.pc = "d63"]
                           ELSE Answered(q, p)]
    /\ UNCHANGED << outsideServer, xr_client, client_open, clients_made >>

\* get_xr_data, lines 63-118, and line 127: the remaining calls on the global
\* xr_client, then the response with head null or filled
Data63(r) ==
    /\ app = "server"
    /\ req[r].pc = "d63"
    /\ \E raises \in BOOLEAN :
          /\ raises => xr_client \notin client_open
          /\ req' = [req EXCEPT ![r] =
                       IF xr_client = 0 \/ raises
                       THEN Failed([@ EXCEPT !.misuse = TRUE])
                       ELSE [@ EXCEPT !.status = 200,
                                      !.body = IF req[r].pose = None THEN "data, head null"
                                               ELSE "data",
                                      !.misuse = (xr_client \notin client_open),
                                      !.pc = "teardown"]]
    /\ UNCHANGED << outsideServer, xr_client, client_open, clients_made >>

\* close_xr_client, line 221: if xr_client
Teardown221(r) ==
    /\ app = "server"
    /\ req[r].pc = "teardown"
    /\ req' = [req EXCEPT ![r].pc = IF xr_client = 0 THEN "done" ELSE "t224"]
    /\ UNCHANGED << outsideServer, xr_client, client_open, clients_made >>

\* close_xr_client, line 224: xr_client.close(); an exception is logged (226-227)
Teardown224(r) ==
    /\ app = "server"
    /\ req[r].pc = "t224"
    /\ client_open' = client_open \ {xr_client}
    /\ req' = [req EXCEPT ![r].pc = "t228"]
    /\ UNCHANGED << outsideServer, xr_client, clients_made >>

\* close_xr_client, line 228: xr_client = None
Teardown228(r) ==
    /\ app = "server"
    /\ req[r].pc = "t228"
    /\ xr_client' = 0
    /\ req' = [req EXCEPT ![r].pc = "done"]
    /\ UNCHANGED << outsideServer, client_open, clients_made >>

\* the response has gone out; the thread is free again
Done(r) ==
    /\ app = "server"
    /\ req[r].pc = "done"
    /\ req' = [req EXCEPT ![r] = NoRequest]
    /\ UNCHANGED << outsideServer, xr_client, client_open, clients_made >>

XInit == SenderInit /\ prog = "RH" /\ PureIdle /\ AppStart /\ app = "server"

XNext ==
    \E r \in 1..NumRequests :
        \/ Arrive(r)
        \/ Before209(r)
        \/ Before212(r)
        \/ HandlerLoad(r)
        \/ HandlerCall(r)
        \/ Data63(r)
        \/ Teardown221(r)
        \/ Teardown224(r)
        \/ Teardown228(r)
        \/ Done(r)

XSpec == XInit /\ [][XNext]_vars

(***************************************************************************)
(* xr_data_display.py: main reads the poses, prints them with              *)
(* display_pose_data and counts the frame, until an exception ends it.     *)
(***************************************************************************)
outsideDisplay == << senderVars, pureVars, app, now, angle_history, guiVars, winVars,
                     srvVars >>

\* what get_pose_by_name returns (lines 328-330): None or a 7-element pose
DPoses == {None, SomePose, <<1, 2, 3, 0, 0, 0, 25>>}

\* the devices in the order main displays them (lines 357, 358, 364)
Devices == << "HEADSET", "LEFT CONTROLLER", "RIGHT CONTROLLER" >>

\* format_position, line 106, and format_quaternion, line 119: the components
\* the formatter takes out of the pose
format_position(pose) == << pose[1], pose[2], pose[3] >>
format_quaternion(pose) == << pose[4], pose[5], pose[6], pose[7] >>

\* while True, line 318, to clear_screen, line 325
Loop318 ==
    /\ app = "display"
    /\ x_exit = "running"
    /\ x_pc = "x318"
    /\ x_frame_count < MaxFrames
    /\ x_shown' = <<>>
    /\ x_pc' = "x328"
    /\ UNCHANGED << outsideDisplay, x_poses, x_frame_count, x_exit >>

\* lines 328-354: read the three poses (and the keys, which no pose display
\* uses), print the header
Read328 ==
    /\ app = "display"
    /\ x_exit = "running"
    /\ x_pc = "x328"
    /\ \E hp \in DPoses, lp \in DPoses, rp \in DPoses :
          x_poses' = << hp, lp, rp >>
    /\ x_pc' = "x357"
    /\ UNCHANGED << outsideDisplay, x_frame_count, x_shown, x_exit >>

\* display_pose_data, lines 235-239, for device i: line 236 calls
\* format_position, whose line 106 subscripts the pose; None is not
\* subscriptable, the TypeError reaches main's except Exception (line 391),
\* which ends in sys.exit(1) (line 402)
display_pose_data(i, to) ==
    /\ IF x_poses[i] = None
       THEN /\ x_shown' = Append(x_shown, [device |-> Devices[i], position |-> <<>>,
                                           quaternion |-> <<>>])
            /\ x_exit' = "exit 1"
            /\ x_pc' = "x402"
       ELSE /\ x_shown' = Append(x_shown, [device |-> Devices[i],
                                           position |-> format_position(x_poses[i]),
                                           quaternion |-> format_quaternion(x_poses[i])])
            /\ x_pc' = to
            /\ UNCHANGED x_exit
    /\ UNCHANGED << outsideDisplay, x_poses, x_frame_count >>

\* line 357: display_pose_data("HEADSET", head_pose, formatter)
Show357 ==
    /\ app = "display"
    /\ x_exit = "running"
    /\ x_pc = "x357"
    /\ display_pose_data(1, "x358")

\* line 358: display_pose_data("LEFT CONTROLLER", left_pose, formatter)
Show358 ==
    /\ app = "display"
    /\ x_exit = "running"
    /\ x_pc = "x358"
    /\ display_pose_data(2, "x364")

\* line 364: display_pose_data("RIGHT CONTROLLER", right_pose, formatter)
Show364 ==
    /\ app = "display"
    /\ x_exit = "running"
    /\ x_pc = "x364"
    /\ display_pose_data(3, "x376")

\* lines 361-382: the analog and button displays, frame_count += 1, the sleep
Frame376 ==
    /\ app = "display"
    /\ x_exit = "running"
    /\ x_pc = "x376"
    /\ x_frame_count' = x_frame_count + 1
    /\ x_pc' = "x318"
    /\ UNCHANGED << outsideDisplay, x_poses, x_shown, x_exit >>

\* Ctrl+C at any point of the loop: except KeyboardInterrupt, lines 384-389
Interrupt384 ==
    /\ app = "display"
    /\ x_exit = "running"
    /\ x_exit' = "exit 0"
    /\ x_pc' = "x389"
    /\ UNCHANGED << outsideDisplay, x_poses, x_frame_count, x_shown >>

DInit == SenderInit /\ prog = "RH" /\ PureIdle /\ AppStart /\ app = "display"

DNext ==
    \/ Loop318
    \/ Read328
    \/ Show357
    \/ Show358
    \/ Show364
    \/ Frame376
    \/ Interrupt384

DSpec == DInit /\ [][DNext]_vars

(***************************************************************************)
(* The claims.                                                             *)
(***************************************************************************)
\* the ranges of the three axes, inclusive, in millidegrees
WithinRanges(v) ==
    /\ -90000 <= v[1] /\ v[1] <= 90000
    /\ -100000 <= v[2] /\ v[2] <= 100000
    /\ -35000 <= v[3] /\ v[3] <= 35000

\* the step that ends a call of map_and_clamp_euler
MapReturns == pc \in {"m121", "m125"} /\ pc' = "send"

\* the angle fields of a message
AngleFields(m) == SubSeq(m, 1, 3)

\* C1: every call of map_and_clamp_euler returns last_valid_angles, and leaves
\* it unchanged, when a mapped axis (axis1 after the offset) is outside its
\* range; otherwise it returns the newly mapped vector, and last_valid_angles
\* becomes that vector.
C1_FreezeAllOrNothing ==
    [][ MapReturns =>
          IF WithinRanges(<<x2_deg, y2_deg, z2_deg>>)
          THEN /\ mapped_angles' = <<x2_deg, y2_deg, z2_deg>>
               /\ last_valid_angles' = <<x2_deg, y2_deg, z2_deg>>
          ELSE /\ mapped_angles' = last_valid_angles
               /\ last_valid_angles' = last_valid_angles ]_vars

\* C2: in every reachable state of the RH sender each component of
\* last_valid_angles lies within its range.
C2_LastValidInRange == WithinRanges(last_valid_angles)

\* C2, its case: a sample has been accepted after a reset moved the offset, and
\* a later sample that exceeds a limit has been answered from last_valid_angles
C2_Witness ==
    /\ prog = "RH" /\ pc = "button" /\ status = "OK" /\ win \in {"held", "none"}
    /\ head_pose # None /\ x2_offset # 0 /\ last_valid_angles[1] # 0

\* C3: a step of the RH polling loop in a tick without a sample (no keyboard
\* reset running) leaves x2_offset and last_valid_angles as they were, whatever
\* the A button does.
C3_MissingSampleKeepsState ==
    [][ ( /\ prog = "RH" /\ head_pose = None /\ head_pose' = None
          /\ rpc["kbd"] = "idle" /\ rpc'["kbd"] = "idle" )
        => /\ x2_offset' = x2_offset
           /\ last_valid_angles' = last_valid_angles ]_vars

\* C4: in a tick without a sample no sender calls quaternion_to_euler, the
\* angles it emits are exactly zero, and its status is not "OK".
C4_MissingSampleZeros ==
    head_pose = None =>
        /\ q2e_calls = 0
        /\ status # "OK"
        /\ \A i \in 1..Len(sent) : \A k \in 1..3 : FieldIsZero(sent[i][k])
        /\ prog = "RH" => mapped_angles = <<0, 0, 0>>
        /\ prog # "RH" => euler_angles = <<0, 0, 0>>

\* C4, its case: the RH sender has pushed the message of a tick without a
\* sample while it holds a last valid vector that is not zero
C4_Witness ==
    /\ prog = "RH" /\ head_pose = None /\ Len(sent) = 1
    /\ last_valid_angles # <<0, 0, 0>>

\* C5: when reset_x2 has executed, x2_offset is the pre-offset axis1 value of
\* the current tick's sample, last_valid_angles[0] is 0, and the other two
\* components of last_valid_angles are what they were before the reset.
C5_ResetEffect ==
    [][ \A t \in Threads :
          (rpc[t] = "r39w" /\ rpc'[t] = "idle") =>
              /\ head_pose # None
              /\ x2_offset' = RemapAxes(quaternion_to_euler(SubSeq(head_pose, 4, 7)))[1]
              /\ last_valid_angles'[1] = 0
              /\ last_valid_angles'[2] = last_valid_angles[2]
              /\ last_valid_angles'[3] = last_valid_angles[3] ]_vars

\* C6: the A button starts a reset in exactly the ticks where it is sampled
\* pressed and was not pressed in the tick before; while it stays pressed,
\* exactly one reset has been started.
C6_EdgeTriggered ==
    [][ (pc = "button" /\ pc' # "button") =>
          /\ (pc' = "reset") <=> (button_pressed' /\ hold_ticks = 0)
          /\ hold_ticks' > 0 => hold_resets' = 1 ]_vars

\* C6, its case: the button has been pressed for two ticks or more and one
\* reset was started
C6_Witness == pc = "poll" /\ hold_ticks = 2 /\ hold_resets = 1 /\ x2_offset # 0

\* C7: reset_x2 and map_and_clamp_euler never run at the same time: no call of
\* map_and_clamp_euler is under way while the keyboard listener is inside
\* reset_x2.
C7_NoConcurrentExecution == ~(pc \in InCall /\ rpc["kbd"] # "idle")

C9_ZeroAfterReset ==
    [][ ( /\ MapReturns /\ after_reset = "incall" /\ ~rs_cur
          /\ \A t \in Threads : rpc[t] = "idle"
          /\ current_x2_raw = x2_offset )
        => mapped_angles'[1] = 0 ]_vars

\* C10, as claimed: when a tick's sample is within all limits and the next
\* tick's sample exceeds one, the angles sent in the second tick are those
\* sent in the first.
C10_FrozenEqualsPrevious ==
    [][ (pc = "m121" /\ pc' = "send" /\ win \in {"clean", "dirty"})
        => AngleFields(data_to_send') = AngleFields(data_to_send) ]_vars

\* C10, amended: the same, provided no reset_x2 stores last_valid_angles
\* between the return of the first tick's map_and_clamp_euler call and the
\* return of the second's.
C10_FrozenEqualsPreviousNoReset ==
    [][ (pc = "m121" /\ pc' = "send" /\ win = "clean")
        => AngleFields(data_to_send') = AngleFields(data_to_send) ]_vars

\* C10, its case: the second tick's message has been sent, with angles that
\* are not zero
C10_Witness ==
    /\ win = "held" /\ pc = "button" /\ Len(sent) = 1
    /\ mapped_angles # <<0, 0, 0>>

\* the number a field denotes, in hundredths
FieldCenti(f) ==
    LET digits == IF Len(f.frac) = 1 THEN 10 * f.frac[1] ELSE 10 * f.frac[1] + f.frac[2]
        a == 100 * f.int + digits
    IN  IF f.neg THEN -a ELSE a

\* C11: the resettable axis (the first field of every message: x2 in the RH
\* sender, yaw in the v2 and archived senders) is sent wrapped into
\* (-180, 180] degrees.
C11_SentAxisWrapped ==
    \A i \in 1..Len(sent) :
        /\ -18000 < FieldCenti(sent[i][1])
        /\ FieldCenti(sent[i][1]) <= 18000

\* a tick of the v2 or archived sender in which the A button is released
\* after a press
VRelease == prog # "RH" /\ hold_ticks > 0 /\ hold_ticks' = 0

\* C12, as claimed: in the v2 and archived senders every press of the A
\* button, from the tick it goes down to the tick it is released, has
\* triggered exactly one reset.
C12_OneResetPerPress ==
    [][ VRelease => hold_resets = 1 ]_vars

\* C12, amended: every press of the A button has triggered at most one reset,
\* during the hold and at its release.
C12_AtMostOneResetPerPress ==
    [][ prog # "RH" => hold_resets' <= 1 ]_vars

\* C12, its case: the button is held for a second tick, its press triggered a
\* reset, and the keyboard has asked for another one
C12_Witness ==
    /\ prog = "V2" /\ pc = "v_cond" /\ hold_ticks = 1 /\ hold_resets = 1
    /\ a_button_state /\ reset_button_pressed /\ keyboard_reset_triggered

\* C13: a reset_x2 executed right after another one, with no step of
\* map_and_clamp_euler since the first began, leaves x2_offset and
\* last_valid_angles as the first left them.
C13_ResetIdempotent ==
    [][ (twice = "second" /\ twice' \in {"second", "done2"})
        => /\ x2_offset' = x2_offset
           /\ last_valid_angles' = last_valid_angles ]_vars

\* C13, its case: two resets have run in succession, on an offset that is
\* not zero
C13_Witness ==
    /\ twice = "done2" /\ x2_offset # 0
    /\ \A t \in Threads : rpc[t] = "idle"

\* C14: when map_and_clamp_euler returns, an axis whose mapped value is above
\* its upper bound is output as exactly that bound, and one below its lower
\* bound as exactly the lower bound, each axis on its own.
C14_ClampToBound ==
    [][ MapReturns =>
          /\ x2_deg > 90000 => mapped_angles'[1] = 90000
          /\ x2_deg < -90000 => mapped_angles'[1] = -90000
          /\ y2_deg > 100000 => mapped_angles'[2] = 100000
          /\ y2_deg < -100000 => mapped_angles'[2] = -100000
          /\ z2_deg > 35000 => mapped_angles'[3] = 35000
          /\ z2_deg < -35000 => mapped_angles'[3] = -35000 ]_vars

\* the wire layout: three fields with two digits after the point, then one
\* field with six
WireLayout(m) ==
    /\ Len(m) = 4
    /\ \A k \in 1..3 : Len(m[k].frac) = 2
    /\ Len(m[4].frac) = 6

\* C15: in every tick of the RH sender, with or without a sample, exactly one
\* message is pushed, and every message pushed has the wire layout.
C15_OneMessageSameLayout ==
    prog = "RH" =>
        /\ Len(sent) <= 1
        /\ pc \in {"button", "reset", "trig"} => Len(sent) = 1
        /\ \A i \in 1..Len(sent) : WireLayout(sent[i])

\* the pose whose quaternion is the zero rotation (x = y = z = 0, w = 1)
ZeroRotationPose == <<0, 0, 0, 0, 0, 0, 25>>

\* C16: for the zero-rotation quaternion quaternion_to_euler returns (0,0,0),
\* and the map_and_clamp_euler call for it that subtracted the offset 0 returns
\* (0,0,0) and leaves last_valid_angles equal to (0,0,0).
C16_ZeroRotation ==
    [][ /\ (pc = "poll" /\ head_pose' = ZeroRotationPose) => euler_angles' = <<0, 0, 0>>
        /\ (MapReturns /\ head_pose = ZeroRotationPose /\ x2_deg = 0)
              => /\ mapped_angles' = <<0, 0, 0>>
                 /\ last_valid_angles' = <<0, 0, 0>> ]_vars

\* C17: quaternion_to_euler(q) equals quaternion_to_euler(-q), in the RH
\* sender and in the v2 sender.
C17_DoubleCover == qpc = "done" => euler_negq = euler_q

\* C17, its case: a quaternion with four components that are not zero has
\* been converted, and so has its negation, to three angles that are not zero
C17_Witness ==
    /\ qpc = "done" /\ fn = "RH"
    /\ \A k \in 1..4 : quat[k] # 0
    /\ \A k \in 1..3 : euler_q[k] # 0

\* C18: the RH quaternion_to_euler has the range -180 to 180 degrees on the
\* pitch too: for a rotation about the pitch axis alone by more than 90
\* degrees (q = (0, y, 0, w) with |y| > |w| > 0) it returns a pitch beyond
\* +-90 degrees.
C18_PitchBeyond90 ==
    ( /\ fn = "RH" /\ qpc # "start"
      /\ quat[1] = 0 /\ quat[3] = 0
      /\ quat[4] # 0 /\ Abs(quat[2]) > Abs(quat[4]) )
    => Abs(euler_q[2]) > 1571

\* C19: map_and_clamp_euler maps the sample to
\* (-pitch_deg - x2_offset, roll_deg, -yaw_deg), subtracting the offset before
\* it checks the ranges, and for an accepted sample it returns that vector.
C19_MappingFormula ==
    [][ /\ (pc = "m103" /\ pc' # "m103") =>
              LET v == << -rad_to_deg(euler_angles[2]) - x2_offset,
                          rad_to_deg(euler_angles[1]),
                          -rad_to_deg(euler_angles[3]) >>
              IN  /\ <<x2_deg', y2_deg', z2_deg'>> = v
                  /\ (pc' = "m124") <=> WithinRanges(v)
        /\ (pc = "m125" /\ pc' = "send") =>
              mapped_angles' = <<x2_deg, y2_deg, z2_deg>> ]_vars

\* C20: in the RH sender a reset_x2 called for the A button runs, from its
\* first step to its last, after the tick's one message has gone out, and
\* leaves that message and the tick's mapped angles as they were computed
\* before it; until the next call of map_and_clamp_euler, the only message
\* sent after a reset has returned is the zero message of a tick without a
\* sample, which does not depend on the offset.
C20_ResetAfterSend ==
    [][ /\ rpc'["main"] # rpc["main"] =>
              /\ prog = "RH"
              /\ pc \in {"button", "reset"}
              /\ sent = <<data_to_send>>
              /\ sent' = sent
              /\ data_to_send' = data_to_send
              /\ mapped_angles' = mapped_angles
        /\ (after_reset = "armed" /\ q2e_calls = 0 /\ sent' # sent /\ sent' # <<>>) =>
              sent' = <<ZeroMessage>> ]_vars

\* the A button's reset_x2 has returned with a new offset in a tick whose
\* message, already sent, carries a non-zero first angle
C20_Witness ==
    /\ prog = "RH"
    /\ pc = "trig"
    /\ button_pressed
    /\ x2_offset # 0
    /\ last_valid_angles[1] = 0
    /\ Len(sent) = 1
    /\ FieldCenti(sent[1][1]) # 0

\* C21: in the v2 and archived senders a tick in which a reset fired sends a
\* yaw of exactly 0 to every endpoint, and in v2 the accumulated
\* joystick_offset is 0 when that tick ends.
C21_ResetTickSendsZeroYaw ==
    [][ (pc = "v_send" /\ pc' = "v_poll" /\ tick_resets >= 1) =>
            /\ euler_angles[1] = 0
            /\ Len(sent') = NumEndpoints
            /\ \A i \in 1..Len(sent') : sent'[i][1] = Fmt2f(0)
            /\ (prog = "V2" => joystick_offset' = 0) ]_vars

\* a v2 tick in which a reset fired on a turned head has sent its messages
C21_Witness ==
    /\ prog = "V2"
    /\ pc = "v_poll"
    /\ tick_resets = 1
    /\ yaw_offset # 0
    /\ head_pose # None
    /\ Len(sent) = NumEndpoints

\* C22: in the v2 and archived senders an 'r' press stays recorded in
\* keyboard_reset_triggered until a reset answers it; a tick with a sample
\* that finds the flag set at line 854 resets; the reset leaves the flag
\* False and answers every press made since the reset before it; no tick
\* resets twice.
C22_KeyPressServed ==
    [][ /\ (prog # "RH" /\ r_presses' > 0) => keyboard_reset_triggered'
        /\ (pc = "v_cond" /\ pc' # "v_cond" /\ keyboard_reset_triggered) =>
              pc' = "v_reset"
        /\ (pc = "v_reset" /\ pc' = "v_apply") =>
              /\ ~keyboard_reset_triggered'
              /\ r_presses' = 0
              /\ r_served' = r_presses
              /\ yaw_offset' = euler_angles[1]
        /\ tick_resets' <= 1 ]_vars

\* two 'r' presses, with the A button up, were answered by this tick's one reset
C22_Witness ==
    /\ prog \in {"V2", "ARCH"}
    /\ pc = "v_apply"
    /\ tick_resets = 1
    /\ r_served = 2
    /\ ~a_button_state
    /\ ~keyboard_reset_triggered

\* C25: in the RH sender axes 2 and 3 of last_valid_angles are those of the
\* latest sample that line 124 stored (0 before the first one), whatever
\* reset_x2 does on the keyboard thread.
C25_ResetKeepsAxes23 ==
    prog = "RH" =>
        /\ last_valid_angles[2] = accepted[2]
        /\ last_valid_angles[3] = accepted[3]

\* the angles data_collection_worker can store: those of a sample, or the
\* initial zeros
SampleAngles == { EulerDegrees(p) : p \in GPoses } \cup { <<0, 0, 0>> }

\* four series of one length, at most history_length, whose entries at each
\* index are the angles of one sample
SeriesAligned(times, yaws, pitches, rolls) ==
    /\ Len(times) <= history_length
    /\ Len(yaws) = Len(times)
    /\ Len(pitches) = Len(times)
    /\ Len(rolls) = Len(times)
    /\ \A i \in 1..Len(times) : << yaws[i], pitches[i], rolls[i] >> \in SampleAngles

\* C23: in adb_control_gui, however data_collection_worker and
\* update_data_display interleave, the yaw, pitch and roll the display has
\* read are those of one sample, the four series it has copied have one
\* length, and whenever the worker is not inside its locked block the four
\* angle_history deques have one length, at most history_length.
C23_DisplayReadsOneSample ==
    app = "adb" =>
        /\ d_pc = "d552" =>
              /\ << disp.yaw, disp.pitch, disp.roll >> \in SampleAngles
              /\ SeriesAligned(disp.times, disp.yaws, disp.pitches, disp.rolls)
        /\ data_lock # "worker" =>
              SeriesAligned(angle_history.time, angle_history.yaw,
                            angle_history.pitch, angle_history.roll)

\* the display has read a turned head and a full history, and the worker is
\* already storing the next, different sample
C23_Witness ==
    /\ app = "adb"
    /\ d_pc = "d552"
    /\ disp.yaw # 0
    /\ Len(disp.times) = history_length
    /\ w_pc = "w504"
    /\ rotation_data.yaw # disp.yaw

\* C28: in adb_control_gui, after any calls of connect_rotation_endpoint and
\* disconnect_rotation_endpoint, rotation_sockets and rotation_endpoints have
\* the same length, the socket at each index is the one connected for the
\* endpoint at that index, and no endpoint text occurs twice.
C28_EndpointListsAligned ==
    app = "adb" =>
        /\ Len(rotation_sockets) = Len(rotation_endpoints)
        /\ \A i \in 1..Len(rotation_sockets) :
              /\ i <= Len(rotation_endpoints)
              /\ rotation_sockets[i] \in 1..Len(sock_addr)
              /\ sock_addr[rotation_sockets[i]] = rotation_endpoints[i]
        /\ \A i, j \in 1..Len(rotation_endpoints) :
              rotation_endpoints[i] = rotation_endpoints[j] => i = j

\* one endpoint is connected, on the second socket created: an earlier
\* connection failed or was disconnected
C28_Witness ==
    /\ app = "adb"
    /\ Len(rotation_endpoints) = 1
    /\ rotation_sockets = <<2>>
    /\ next_sock = 2

\* C29: in data_collection_worker a tick without a headset pose pushes no
\* message and leaves rotation_data, angle_history, data_frequency and
\* frame_count as they were; data_status alone changes, to 'NO HEADSET'.
C29_NoPoseTick ==
    [][ (app = "adb" /\ w_pc' # w_pc /\ w_head_pose' = None) =>
            /\ g_sent' = <<>>
            /\ rotation_data' = rotation_data
            /\ angle_history' = angle_history
            /\ data_frequency' = data_frequency
            /\ frame_count' = frame_count
            /\ w_frame_count' = w_frame_count
            /\ data_status' = IF w_pc = "w524" THEN "NO HEADSET" ELSE data_status ]_vars

\* a tick without a pose has ended, after a tick with a turned head, with an
\* endpoint connected
C29_Witness ==
    /\ app = "adb"
    /\ w_pc = "w527"
    /\ w_head_pose = None
    /\ data_status = "NO HEADSET"
    /\ rotation_sockets # <<>>
    /\ rotation_data.yaw # 0
    /\ frame_count > 0
    /\ g_sent = <<>>

\* C24: in the v2 sender, while the polling loop calls update_data, a frame
\* the window thread has drawn shows yaw, pitch and roll of one tick, in the
\* 3D view and in the gauges, and angle_history series of one length.
C24_FrameSeesOneTick ==
    (app = "window" /\ f_pc = "f_shown") =>
        /\ << frame.yaw3d, frame.pitch3d, frame.roll3d >> \in SampleAngles
        /\ << frame.yaw, frame.pitch, frame.roll >> \in SampleAngles
        /\ Len(frame.yaws) = Len(frame.times)
        /\ Len(frame.pitches) = Len(frame.times)
        /\ Len(frame.rolls) = Len(frame.times)

\* C26: in xr_data_server no handler calls xr_client when it is None or
\* closed, however the requests interleave.
C26_ClientOpenInHandler ==
    app = "server" => \A r \in 1..NumRequests : ~req[r].misuse

\* C27: each of the nine per-device routes answers 404 with a JSON null body
\* exactly when the device's pose is None, and 200 otherwise; /data answers
\* 200, with head null when the headset's pose is None.
C27_StatusFollowsPose ==
    app = "server" =>
        \A r \in 1..NumRequests :
            req[r].pc = "done" =>
                IF req[r].route \in DeviceRoutes
                THEN /\ req[r].pose = None => (req[r].status = 404 /\ req[r].body = "null")
                     /\ req[r].pose # None => req[r].status = 200
                ELSE /\ req[r].status = 200
                     /\ req[r].pose = None => req[r].body = "data, head null"

\* C30: the xr_data_display loop keeps running on a tick where the pose of
\* the headset or of a controller is None: the program does not end with an
\* error because of the missing pose.
C30_NonePoseKeepsRunning ==
    (app = "display" /\ \E i \in 1..3 : x_poses[i] = None) => x_exit # "exit 1"


=============================================================================
